---- MODULE Spec2Model ----
(***************************************************************************)
(* A model of the oxiwatch daemon: the journal reader (internal/journal),  *)
(* the recurring task scheduler (internal/scheduler) and the daemon's      *)
(* control loop (internal/daemon).                                         *)
(*                                                                         *)
(* Time is counted in periods of the scheduler's ticker (30 seconds) since *)
(* the Unix epoch; an instant is an integer, a local wall clock reading is *)
(* the instant plus the zone offset in force.                              *)
(***************************************************************************)
EXTENDS Integers, Sequences, FiniteSets, TLC

VARIABLES
    cfg,          \* the daemon's configuration (config.Config), fixed for a run
    mainPc,       \* where Daemon.Run stands
    runErr,       \* what Daemon.Run returned: "none" until it returns
    cancelled,    \* the context of Run has been cancelled
    sigPending,   \* a termination signal waits in sigCh
    procState,    \* the journalctl subprocess
    nRecords,     \* how many records the subprocess has written
    readerPc,     \* where the reader goroutine of journal.Start stands
    pending,      \* the event the reader goroutine is sending
    events,       \* the buffer of the events channel
    chanClosed,   \* the events channel has been closed
    cur,          \* the event Daemon.Run received last
    place,        \* processEvent's country and city: "" or "found"
    geoip,        \* the daemon's resolver: "nil", "open" or "closed"
    storage,      \* the storage handle: "open" or "closed"
    tasks,        \* the scheduler's registry (Scheduler.tasks)
    schedPc,      \* where the goroutine of Scheduler.Start stands
    schedI,       \* the loop index of checkTasks
    now,          \* the instant the last tick read from the clock
    running,      \* the registry indexes of the task actions executing
    fired,        \* per task, the local date of its latest invocation, the number of
                  \* invocations on that date and whether one of them failed
    tickLog,      \* the registry indexes invoked in the current tick, in order
    text,         \* the line scanner.Text() returned last
    parsed,       \* every event parseJournalLine returned, in order
    sent,         \* every event sent on the events channel, in order
    processed,    \* every event passed to processEvent, in order
    inProgress,   \* the processEvent calls that have not returned
    procCalls,    \* the calls processEvent made for the event received last
    parseCalls,   \* the calls made of the parser package, with what they returned
    rows,         \* the rows of the table ssh_events, in the order of their insertion
    lastReport,   \* the daily report generated last, with its date
    files,        \* the executable and the temporary file beside it
    upgrade,      \* the call of Checker.Upgrade made last, with what it returned
    teardown      \* the calls the shutdown sequence made, in order

vars == << cfg, mainPc, runErr, cancelled, sigPending, procState, nRecords,
           readerPc, pending, events, chanClosed, cur, place, geoip, storage,
           tasks, schedPc, schedI, now, running, fired, tickLog,
           text, parsed, sent, processed, inProgress, procCalls, parseCalls,
           rows, lastReport, files, upgrade, teardown >>

ToolVars == << rows, lastReport, files, upgrade >>

Nil == [nil |-> TRUE]

(***************************************************************************)
(* The civil calendar, as package time computes Year, Month and Day.       *)
(***************************************************************************)
TicksPerMinute == 60 \div 30
TicksPerHour == 60 * TicksPerMinute
TicksPerDay == 24 * TicksPerHour

\* The day number (days since 1970-01-01) of a civil date; a day past the end
\* of the month runs on into the next month, as time.Date normalises it.
\* yy is the year that starts in March, mp the month counted from March.
DayOfEra(yoe, mp, d) ==
    yoe * 365 + yoe \div 4 - yoe \div 100 + (153 * mp + 2) \div 5 + d - 1

DaysFromMarch(yy, mp, d) ==
    (yy \div 400) * 146097 + DayOfEra(yy % 400, mp, d) - 719468

DaysFromCivil(y, m, d) ==
    DaysFromMarch(IF m <= 2 THEN y - 1 ELSE y, IF m > 2 THEN m - 3 ELSE m + 9, d)

\* The civil date of a day number: era is the 400 year era, doe the day of
\* the era, yoe the year of the era, doy the day of the year from March 1.
CivilOfMonth(y, m, d) ==
    [year |-> IF m <= 2 THEN y + 1 ELSE y, month |-> m, day |-> d]

CivilOfMarchMonth(y, mp, doy) ==
    CivilOfMonth(y, IF mp < 10 THEN mp + 3 ELSE mp - 9, doy - (153 * mp + 2) \div 5 + 1)

CivilOfDayOfYear(y, doy) == CivilOfMarchMonth(y, (5 * doy + 2) \div 153, doy)

CivilOfYearOfEra(era, doe, yoe) ==
    CivilOfDayOfYear(yoe + era * 400, doe - (365 * yoe + yoe \div 4 - yoe \div 100))

CivilOfDayOfEra(era, doe) ==
    CivilOfYearOfEra(era, doe,
        (doe - doe \div 1460 + doe \div 36524 - doe \div 146096) \div 365)

CivilFromDays(z) == CivilOfDayOfEra((z + 719468) \div 146097, (z + 719468) % 146097)

\* The instant that reads y-m-d hh:mm in UTC, plus half ticks of 30 seconds.
Instant(y, m, d, hh, mm, half) ==
    DaysFromCivil(y, m, d) * TicksPerDay + hh * TicksPerHour
        + mm * TicksPerMinute + half

(***************************************************************************)
(* Time zones (time.Location), as time.LoadLocation reads them from the    *)
(* zone database: an initial offset and the transitions after it, each     *)
(* with the offset in force from then on.                                  *)
(***************************************************************************)
Omega == 2^30 + (2^30 - 1)    \* after every instant (package time's omega)
Alpha == -Omega               \* before every instant (package time's alpha)

\* time.Time{}: January 1 of year 1, 00:00 UTC.
ZeroTime == DaysFromCivil(1, 1, 1) * TicksPerDay

ZoneNames == {"UTC", "Asia/Amman", "America/Havana"}

\* Asia/Amman: +02:00, summer time +03:00 from the last Thursday of March
\* 24:00 to the last Friday of October 01:00 (2014 to 2021), +03:00 for good
\* from February 2022.  America/Havana: -05:00, summer time -04:00 from the
\* second Sunday of March 00:00 to the first Sunday of November 01:00.
Zone(name) ==
    CASE name = "UTC" -> [init |-> 0, trans |-> << >>]
      [] name = "Asia/Amman" ->
            [init |-> 2 * TicksPerHour,
             trans |-> << [at |-> Instant(2021, 3, 25, 22, 0, 0), off |-> 3 * TicksPerHour],
                          [at |-> Instant(2021, 10, 28, 22, 0, 0), off |-> 2 * TicksPerHour],
                          [at |-> Instant(2022, 2, 24, 22, 0, 0), off |-> 3 * TicksPerHour] >>]
      [] name = "America/Havana" ->
            [init |-> -5 * TicksPerHour,
             trans |-> << [at |-> Instant(2021, 3, 14, 5, 0, 0), off |-> -4 * TicksPerHour],
                          [at |-> Instant(2021, 11, 7, 5, 0, 0), off |-> -5 * TicksPerHour],
                          [at |-> Instant(2022, 3, 13, 5, 0, 0), off |-> -4 * TicksPerHour],
                          [at |-> Instant(2022, 11, 6, 5, 0, 0), off |-> -5 * TicksPerHour],
                          [at |-> Instant(2023, 3, 12, 5, 0, 0), off |-> -4 * TicksPerHour],
                          [at |-> Instant(2023, 11, 5, 5, 0, 0), off |-> -5 * TicksPerHour] >>]

\* time.LoadLocation: the zone of a known name, an error for any other.
LoadLocation(timezone) ==
    IF timezone \in ZoneNames THEN [err |-> FALSE, loc |-> timezone]
    ELSE [err |-> TRUE, loc |-> "UTC"]

\* Location.lookup: the offset in force at instant t and the period
\* [start, end) over which it is in force.  n counts the transitions of zone
\* z that are not after t.
lookupPeriod(z, n) ==
    [offset |-> IF n = 0 THEN z.init ELSE z.trans[n].off,
     start |-> IF n = 0 THEN Alpha ELSE z.trans[n].at,
     end |-> IF n = Len(z.trans) THEN Omega ELSE z.trans[n + 1].at]

lookupZone(z, t) ==
    lookupPeriod(z, Cardinality({k \in 1..Len(z.trans) : z.trans[k].at <= t}))

lookup(loc, t) == lookupZone(Zone(loc), t)

\* Time.In: the instant t read on the wall clock of loc.
In(t, loc) == [t |-> t, loc |-> loc]

\* The wall clock reading of a time, as ticks since the epoch of its zone.
Wall(tt) == tt.t + lookup(tt.loc, tt.t).offset

Civil(tt) == CivilFromDays(Wall(tt) \div TicksPerDay)
Year(tt) == Civil(tt).year
Month(tt) == Civil(tt).month
Day(tt) == Civil(tt).day
Hour(tt) == (Wall(tt) % TicksPerDay) \div TicksPerHour
Minute(tt) == (Wall(tt) % TicksPerHour) \div TicksPerMinute

\* time.Date: the instant at which the wall clock of loc reads the given
\* date and time.  The reading, unix, is first taken as UTC to find a period
\* z and its offset; when the instant this offset gives lies outside z, the
\* offset in force at that instant is used instead.  A reading that occurs
\* twice, or never, in loc is resolved by exactly this rule.
dateOffset(unix, z, loc) ==
    IF unix - z.offset < z.start \/ unix - z.offset >= z.end
    THEN lookup(loc, unix - z.offset).offset
    ELSE z.offset

dateResolve(unix, z, loc) ==
    IF z.offset # 0 THEN In(unix - dateOffset(unix, z, loc), loc) ELSE In(unix, loc)

\* tod is the time of day, in ticks.
Date(y, m, d, tod, loc) ==
    dateResolve(DaysFromCivil(y, m, d) * TicksPerDay + tod,
                lookup(loc, DaysFromCivil(y, m, d) * TicksPerDay + tod), loc)

\* Time.AddDate: the same wall clock reading years, months and days later.
\* c is the civil date of the time and wall its wall clock reading.
addDate(c, wall, loc, years, months, days) ==
    Date(c.year + years + (c.month - 1 + months) \div 12,
         ((c.month - 1 + months) % 12) + 1, c.day + days,
         wall % TicksPerDay, loc)

AddDate(tt, years, months, days) ==
    LET c == Civil(tt)
        wall == Wall(tt)
    IN  addDate(c, wall, tt.loc, years, months, days)

\* Time.Before.
Before(t, u) == t < u

(***************************************************************************)
(* The scheduler's registry (internal/scheduler).                          *)
(***************************************************************************)
IsDigit(c) == c \in {"0", "1", "2", "3", "4", "5", "6", "7", "8", "9"}

DigitVal(c) ==
    CASE c = "0" -> 0 [] c = "1" -> 1 [] c = "2" -> 2 [] c = "3" -> 3
      [] c = "4" -> 4 [] c = "5" -> 5 [] c = "6" -> 6 [] c = "7" -> 7
      [] c = "8" -> 8 [] c = "9" -> 9

\* package time's getnum: the leading number of s, of two digits, or of one
\* digit when the second character is no digit and fixed is not asked for.
getnum(s, fixed) ==
    IF Len(s) = 0 \/ ~IsDigit(s[1]) THEN [err |-> TRUE, n |-> 0, rest |-> s]
    ELSE IF Len(s) < 2 \/ ~IsDigit(s[2])
         THEN IF fixed THEN [err |-> TRUE, n |-> 0, rest |-> s]
              ELSE [err |-> FALSE, n |-> DigitVal(s[1]), rest |-> SubSeq(s, 2, Len(s))]
         ELSE [err |-> FALSE, n |-> DigitVal(s[1]) * 10 + DigitVal(s[2]),
               rest |-> SubSeq(s, 3, Len(s))]

\* parseTime: time.Parse("15:04", timeStr), then Hour and Minute.  A time
\* string is the sequence of its characters.
parseTime(timeStr) ==
    LET failed == [err |-> TRUE, hour |-> 0, minute |-> 0]
        h == getnum(timeStr, FALSE)
        m == getnum(SubSeq(h.rest, 2, Len(h.rest)), TRUE)
    IN  IF h.err \/ h.n >= 24 THEN failed
        ELSE IF Len(h.rest) = 0 \/ h.rest[1] # ":" THEN failed
        ELSE IF m.err \/ m.n >= 60 THEN failed
        ELSE IF Len(m.rest) # 0 THEN failed
        ELSE [err |-> FALSE, hour |-> h.n, minute |-> m.n]

taskTypeDaily == "daily"
taskTypeMonthly == "monthly"

\* A registration that sets lastRun to the end of the model's clock, as if
\* the task had run.
addTask_ran(reg, name, timeStr, timezone, task, type) ==
    LET l == LoadLocation(timezone)
        t == parseTime(timeStr)
    IN  IF l.err THEN [err |-> TRUE, tasks |-> reg]
        ELSE IF t.err THEN [err |-> TRUE, tasks |-> reg]
        ELSE [err |-> FALSE,
              tasks |-> Append(reg, [name |-> name, task |-> task,
                                     hour |-> t.hour, minute |-> t.minute,
                                     location |-> l.loc,
                                     lastRun |-> Instant(2024, 1, 1, 0, 0, 0),
                                     taskType |-> type])]

\* A registration that takes 00:00 for a time string parseTime rejects.
addTask_lenient(reg, name, timeStr, timezone, task, type) ==
    LET l == LoadLocation(timezone)
        t == parseTime(timeStr)
    IN  IF l.err THEN [err |-> TRUE, tasks |-> reg]
        ELSE [err |-> FALSE,
              tasks |-> Append(reg, [name |-> name, task |-> task,
                                     hour |-> t.hour, minute |-> t.minute,
                                     location |-> l.loc, lastRun |-> ZeroTime,
                                     taskType |-> type])]

\* The registration shared by AddDailyTask and AddMonthlyTask: the registry
\* with the task appended, or the error of LoadLocation or parseTime and the
\* registry as it was.
addTask(reg, name, timeStr, timezone, task, type) ==
    LET l == LoadLocation(timezone)
        t == parseTime(timeStr)
    IN  IF l.err THEN [err |-> TRUE, tasks |-> reg]
        ELSE IF t.err THEN [err |-> TRUE, tasks |-> reg]
        ELSE [err |-> FALSE,
              tasks |-> Append(reg, [name |-> name, task |-> task,
                                     hour |-> t.hour, minute |-> t.minute,
                                     location |-> l.loc, lastRun |-> ZeroTime,
                                     taskType |-> type])]

AddDailyTask(reg, name, timeStr, timezone, task) ==
    addTask(reg, name, timeStr, timezone, task, taskTypeDaily)

AddMonthlyTask(reg, name, timeStr, timezone, task) ==
    addTask(reg, name, timeStr, timezone, task, taskTypeMonthly)

\* A last-day test by the day number alone, blind to the month's length.
isLastDayOfMonth_from28(tt) == Day(tt) >= 28

\* isLastDayOfMonth: the same wall clock reading one day later lies in
\* another month.
isLastDayOfMonth(tt) == Month(AddDate(tt, 0, 0, 1)) # Month(tt)

\* checkTasks, the test of one task at the instant t the tick read: the hour
\* and minute of the task's wall clock equal the trigger, the last run lies
\* before today's midnight in the task's zone, and a monthly task is on the
\* last day of its month.
TriggerMinute(task, t) ==
    /\ Hour(In(t, task.location)) = task.hour
    /\ Minute(In(t, task.location)) = task.minute

\* today: midnight of the civil date c, in the zone loc.
midnight(c, loc) == Date(c.year, c.month, c.day, 0, loc)

Today(task, t) ==
    LET c == Civil(In(t, task.location))
    IN  midnight(c, task.location)

NotRunToday(task, t) == Before(task.lastRun, Today(task, t).t)

MonthlyGate(task, t) ==
    task.taskType = taskTypeMonthly => isLastDayOfMonth(In(t, task.location))

\* The local date (as a day number) of instant t in the task's zone.
LocalDate(task, t) == Wall(In(t, task.location)) \div TicksPerDay

(***************************************************************************)
(* The configuration and the environment's inputs.                         *)
(***************************************************************************)
Chars(a, b, c, d, e) == << a, b, c, d, e >>

T0400 == Chars("0", "4", ":", "0", "0")
T0030 == Chars("0", "0", ":", "3", "0")
T0300 == Chars("0", "3", ":", "0", "0")
T2400 == Chars("2", "4", ":", "0", "0")    \* no time of day: parseTime fails
T0259 == Chars("0", "2", ":", "5", "9")
T2330 == Chars("2", "3", ":", "3", "0")

\* The configurations of a run: the daily report off, or on at a time and in
\* a zone (one of them unknown to the zone database), and GeoIP on or off.
ReportSettings ==
    { [DailyReportTime |-> T0400, DailyReportTimezone |-> "UTC"],
      [DailyReportTime |-> T0030, DailyReportTimezone |-> "Asia/Amman"],
      [DailyReportTime |-> T0030, DailyReportTimezone |-> "America/Havana"],
      [DailyReportTime |-> T2400, DailyReportTimezone |-> "UTC"],
      [DailyReportTime |-> T0400, DailyReportTimezone |-> "Mars/Phobos"] }

Configs ==
    { [DailyReportEnabled |-> TRUE, DailyReportTime |-> r.DailyReportTime,
       DailyReportTimezone |-> r.DailyReportTimezone, GeoIPEnabled |-> g] :
        r \in ReportSettings, g \in BOOLEAN }
    \cup
    { [DailyReportEnabled |-> FALSE, DailyReportTime |-> T0400,
       DailyReportTimezone |-> "UTC", GeoIPEnabled |-> g] : g \in BOOLEAN }

\* The instants at which a tick may read the clock: both ticks of the minutes
\* around the triggers on the days the calendar and the zones make special.
ClockMinutes ==
    { Instant(2021, 1, 30, 4, 0, 0),     \* Jan 30, 04:00 UTC
      Instant(2021, 1, 31, 3, 0, 0),     \* Jan 31, 03:00 UTC
      Instant(2021, 1, 31, 4, 0, 0),     \* Jan 31, 04:00 UTC
      Instant(2021, 2, 28, 4, 0, 0),     \* Feb 28 of a common year
      Instant(2021, 10, 28, 21, 30, 0),  \* Amman Oct 29, 00:30 +03
      Instant(2021, 10, 28, 22, 30, 0),  \* Amman Oct 29, 00:30 +02
      Instant(2021, 10, 29, 22, 30, 0),  \* Amman Oct 30, 00:30 +02
      Instant(2021, 11, 7, 4, 30, 0),    \* Havana Nov 7, 00:30 -04
      Instant(2021, 11, 7, 5, 30, 0),    \* Havana Nov 7, 00:30 -05
      Instant(2024, 2, 28, 4, 0, 0),     \* Feb 28 of a leap year
      Instant(2024, 2, 29, 4, 0, 0) }    \* Feb 29 of a leap year

ClockTimes == { m + h : m \in ClockMinutes, h \in 0..(TicksPerMinute - 1) }

\* The instant Run starts at.
StartTime == Instant(2021, 1, 30, 0, 0, 0)

(***************************************************************************)
(* The runs on the 30 second ticker: their configurations, their stretch   *)
(* of time and the ticks that matter in it.                                *)
(***************************************************************************)
\* A report one minute before the cleanup; a report at a local time that a
\* clock set back brings twice; a report in the last hour of a day whose
\* successor starts with a clock set forward.
TickConfigs ==
    { [DailyReportEnabled |-> TRUE, DailyReportTime |-> r.DailyReportTime,
       DailyReportTimezone |-> r.DailyReportTimezone, GeoIPEnabled |-> FALSE] :
        r \in { [DailyReportTime |-> T0259, DailyReportTimezone |-> "UTC"],
                [DailyReportTime |-> T0030, DailyReportTimezone |-> "Asia/Amman"],
                [DailyReportTime |-> T2330, DailyReportTimezone |-> "America/Havana"] } }

\* The stretch of time of a run: from TickStart to TickEnd.
TickStart(c) ==
    CASE c.DailyReportTimezone = "Asia/Amman" -> Instant(2021, 10, 28, 21, 29, 0)
      [] c.DailyReportTimezone = "America/Havana" -> Instant(2021, 3, 14, 4, 29, 0)
      [] OTHER -> Instant(2021, 1, 31, 2, 58, 0)

TickEnd(c) ==
    CASE c.DailyReportTimezone = "Asia/Amman" -> Instant(2021, 10, 28, 22, 32, 0)
      [] c.DailyReportTimezone = "America/Havana" -> Instant(2021, 3, 15, 3, 32, 0)
      [] OTHER -> Instant(2021, 1, 31, 3, 2, 0)

\* The registry Run builds for the configuration c.
RunTasks(c) ==
    LET report == IF c.DailyReportEnabled
                  THEN AddDailyTask(<< >>, "daily-report", c.DailyReportTime,
                                    c.DailyReportTimezone, "sendDailyReport").tasks
                  ELSE << >>
        cleanup == AddDailyTask(report, "retention-cleanup", T0300, "UTC",
                                "runCleanup").tasks
    IN  IF c.GeoIPEnabled
        THEN AddMonthlyTask(cleanup, "geoip-update", T0400, "UTC",
                            "checkGeoIPUpdate").tasks
        ELSE cleanup

\* The ticks of the stretch that find some task in its trigger minute.
TriggerTicks ==
    [c \in TickConfigs |->
        { u \in TickStart(c)..TickEnd(c) :
            \E i \in DOMAIN RunTasks(c) : TriggerMinute(RunTasks(c)[i], u) }]

(***************************************************************************)
(* The wall clocks at the instants of the model.                           *)
(***************************************************************************)
Instants ==
    ClockTimes \cup {StartTime}
    \cup UNION { TriggerTicks[c] \cup {TickStart(c), TickEnd(c)} : c \in TickConfigs }

\* What checkTasks reads off the wall clock of loc at the instant t: the hour
\* and the minute, today's midnight, and whether the day is the last of its
\* month.
Reading(loc, t) ==
    [hour |-> Hour(In(t, loc)),
     minute |-> Minute(In(t, loc)),
     today |-> midnight(Civil(In(t, loc)), loc).t,
     lastDay |-> isLastDayOfMonth(In(t, loc))]

\* The readings, computed once.
Readings == [loc \in ZoneNames |-> [t \in Instants |-> Reading(loc, t)]]

\* A test that would catch up on a trigger minute gone by: the wall clock at
\* or past the trigger, on a day the task has not run.
Due_catchUp(task, t) ==
    LET r == Readings[task.location][t]
    IN  /\ r.hour * 60 + r.minute >= task.hour * 60 + task.minute
        /\ Before(task.lastRun, r.today)
        /\ task.taskType = taskTypeMonthly => r.lastDay

\* checkTasks, the test of one task at the instant t the tick read.
Due(task, t) ==
    LET r == Readings[task.location][t]
    IN  /\ r.hour = task.hour /\ r.minute = task.minute
        /\ Before(task.lastRun, r.today)
        /\ task.taskType = taskTypeMonthly => r.lastDay

(***************************************************************************)
(* Daemon.Run up to the main loop.                                         *)
(***************************************************************************)
SchedVars == << tasks, schedPc, schedI, now, running, fired, tickLog >>
PipeVars == << procState, nRecords, readerPc, pending, events, chanClosed,
               text, parsed, sent >>
EventVars == << cur, place, processed, inProgress, procCalls >>

\* Run returns err: the deferred cancel runs.
Return(err) ==
    /\ mainPc' = "returned"
    /\ runErr' = err
    /\ cancelled' = TRUE

\* A Run that goes on after a failed journal.Start.
RunJournalStart_goOn ==
    /\ mainPc = "start"
    /\ \E ok \in BOOLEAN :
          IF ok
          THEN /\ procState' = "running"
               /\ readerPc' = "scan"
          ELSE UNCHANGED << procState, readerPc >>
    /\ mainPc' = "addReport"
    /\ UNCHANGED << runErr, cancelled >>
    /\ UNCHANGED << cfg, parseCalls, ToolVars, sigPending, nRecords, pending, events, chanClosed,
                    text, parsed, sent, geoip, storage, teardown >>
    /\ UNCHANGED << SchedVars, EventVars >>

\* journal.Start: the subprocess is spawned and the reader goroutine started,
\* or the spawn fails and Run returns the error.
RunJournalStart ==
    /\ mainPc = "start"
    /\ \E ok \in BOOLEAN :
          IF ok
          THEN /\ procState' = "running"
               /\ readerPc' = "scan"
               /\ mainPc' = "addReport"
               /\ UNCHANGED << runErr, cancelled >>
          ELSE /\ Return("spawn")
               /\ UNCHANGED << procState, readerPc >>
    /\ UNCHANGED << cfg, parseCalls, ToolVars, sigPending, nRecords, pending, events, chanClosed,
                    text, parsed, sent, geoip, storage, teardown >>
    /\ UNCHANGED << SchedVars, EventVars >>

NeverFired == [date |-> -1, count |-> 0, failed |-> FALSE]

\* One registration of Run: the task joins the registry and Run goes on, or
\* the error is returned.
Register(r, next) ==
    /\ IF r.err
       THEN /\ Return("register")
            /\ UNCHANGED << tasks, fired >>
       ELSE /\ tasks' = r.tasks
            /\ fired' = [i \in 1..Len(r.tasks) |->
                            IF i \in DOMAIN fired THEN fired[i] ELSE NeverFired]
            /\ mainPc' = next
            /\ UNCHANGED << runErr, cancelled >>
    /\ UNCHANGED << cfg, parseCalls, ToolVars, sigPending, geoip, storage, teardown,
                    schedPc, schedI, now, running, tickLog >>
    /\ UNCHANGED << PipeVars, EventVars >>

RunAddDailyReport ==
    /\ mainPc = "addReport"
    /\ Register(IF cfg.DailyReportEnabled
                THEN AddDailyTask(tasks, "daily-report", cfg.DailyReportTime,
                                  cfg.DailyReportTimezone, "sendDailyReport")
                ELSE [err |-> FALSE, tasks |-> tasks],
                "addCleanup")

RunAddCleanup ==
    /\ mainPc = "addCleanup"
    /\ Register(AddDailyTask(tasks, "retention-cleanup", T0300, "UTC", "runCleanup"),
                "addGeoIP")

\* A Run that registers geoip-update whether GeoIP is enabled or not.
RunAddGeoIP_always ==
    /\ mainPc = "addGeoIP"
    /\ Register(AddMonthlyTask(tasks, "geoip-update", T0400, "UTC", "checkGeoIPUpdate"),
                "goScheduler")

RunAddGeoIP ==
    /\ mainPc = "addGeoIP"
    /\ Register(IF cfg.GeoIPEnabled
                THEN AddMonthlyTask(tasks, "geoip-update", T0400, "UTC",
                                    "checkGeoIPUpdate")
                ELSE [err |-> FALSE, tasks |-> tasks],
                "goScheduler")

\* go d.scheduler.Start(ctx)
RunGoScheduler ==
    /\ mainPc = "goScheduler"
    /\ schedPc' = "idle"
    /\ mainPc' = "select"
    /\ UNCHANGED << cfg, parseCalls, ToolVars, runErr, cancelled, sigPending, geoip, storage, teardown,
                    tasks, schedI, now, running, fired, tickLog >>
    /\ UNCHANGED << PipeVars, EventVars >>

(***************************************************************************)
(* Scheduler.Start and checkTasks.                                         *)
(***************************************************************************)
\* case <-ticker.C: checkTasks reads the clock and starts its loop.
SchedTick ==
    /\ schedPc = "idle"
    /\ \E t \in ClockTimes :
          /\ t > now
          /\ now' = t
    /\ schedI' = 1
    /\ schedPc' = "loop"
    /\ UNCHANGED << cfg, parseCalls, ToolVars, mainPc, runErr, cancelled, sigPending, geoip, storage,
                    teardown, tasks, running, fired, tickLog >>
    /\ UNCHANGED << PipeVars, EventVars >>

\* A Start whose select does not watch the context.
SchedCtxDone_deaf ==
    /\ schedPc = "idle"
    /\ cancelled
    /\ UNCHANGED vars

\* case <-ctx.Done(): Start returns.
SchedCtxDone ==
    /\ schedPc = "idle"
    /\ cancelled
    /\ schedPc' = "stopped"
    /\ UNCHANGED << cfg, parseCalls, ToolVars, mainPc, runErr, cancelled, sigPending, geoip, storage,
                    teardown, tasks, schedI, now, running, fired, tickLog >>
    /\ UNCHANGED << PipeVars, EventVars >>

\* The loop of checkTasks is over: back to the select of Start.
SchedLoopEnd ==
    /\ schedPc = "loop"
    /\ schedI > Len(tasks)
    /\ schedPc' = "idle"
    /\ tickLog' = << >>
    /\ UNCHANGED << cfg, parseCalls, ToolVars, mainPc, runErr, cancelled, sigPending, geoip, storage,
                    teardown, tasks, schedI, now, running, fired >>
    /\ UNCHANGED << PipeVars, EventVars >>

\* One iteration of the loop on a task that is not due.
SchedSkip ==
    /\ schedPc = "loop"
    /\ schedI <= Len(tasks)
    /\ ~Due(tasks[schedI], now)
    /\ schedI' = schedI + 1
    /\ UNCHANGED << cfg, parseCalls, ToolVars, mainPc, runErr, cancelled, sigPending, geoip, storage,
                    teardown, tasks, schedPc, now, running, fired, tickLog >>
    /\ UNCHANGED << PipeVars, EventVars >>

\* A loop that starts the action of a due task and goes on without waiting
\* for its return.
SchedInvoke_go ==
    /\ schedPc = "loop"
    /\ schedI <= Len(tasks)
    /\ Due(tasks[schedI], now)
    /\ running' = running \cup {schedI}
    /\ tickLog' = Append(tickLog, schedI)
    /\ tasks' = [tasks EXCEPT ![schedI].lastRun = now]
    /\ schedI' = schedI + 1
    /\ UNCHANGED << cfg, parseCalls, ToolVars, mainPc, runErr, cancelled, sigPending, geoip, storage,
                    teardown, schedPc, now, fired >>
    /\ UNCHANGED << PipeVars, EventVars >>

\* One iteration of the loop on a task that is due: its action is called.
SchedInvoke ==
    /\ schedPc = "loop"
    /\ schedI <= Len(tasks)
    /\ Due(tasks[schedI], now)
    /\ running' = running \cup {schedI}
    /\ tickLog' = Append(tickLog, schedI)
    /\ fired' = [fired EXCEPT ![schedI] =
                    IF @.date = LocalDate(tasks[schedI], now)
                    THEN [@ EXCEPT !.count = @ + 1]
                    ELSE [date |-> LocalDate(tasks[schedI], now), count |-> 1,
                          failed |-> FALSE]]
    /\ schedPc' = "task"
    /\ UNCHANGED << cfg, parseCalls, ToolVars, mainPc, runErr, cancelled, sigPending, geoip, storage,
                    teardown, tasks, schedI, now >>
    /\ UNCHANGED << PipeVars, EventVars >>

\* The action returns, with an error or without: the error is logged, the last
\* run is set to the instant the tick read, and the loop goes on.
SchedTaskReturn ==
    /\ schedPc = "task"
    /\ \E err \in BOOLEAN :
          /\ tasks' = [tasks EXCEPT ![schedI].lastRun = now]
          /\ fired' = [fired EXCEPT ![schedI].failed = @ \/ err]
    /\ running' = running \ {schedI}
    /\ schedI' = schedI + 1
    /\ schedPc' = "loop"
    /\ UNCHANGED << cfg, parseCalls, ToolVars, mainPc, runErr, cancelled, sigPending, geoip, storage,
                    teardown, now, tickLog >>
    /\ UNCHANGED << PipeVars, EventVars >>

(***************************************************************************)
(* The journal reader (internal/journal) and the message parser.           *)
(***************************************************************************)
MaxRecords == 3     \* the records the subprocess writes in one run
ChanCap == 2        \* the capacity of the events channel (100 in journal.New)

EventSuccess == "success"
EventFailure == "failure"

\* A message is the sequence of its words, the runs of characters that are no
\* white space, and a word the sequence of its characters.  W holds the words
\* of the patterns, and words of the messages and lines sshd and others write.
W ==
    [ Accepted |-> << "A", "c", "c", "e", "p", "t", "e", "d" >>,
      Failed |-> << "F", "a", "i", "l", "e", "d" >>,
      password |-> << "p", "a", "s", "s", "w", "o", "r", "d" >>,
      publickey |-> << "p", "u", "b", "l", "i", "c", "k", "e", "y" >>,
      for |-> << "f", "o", "r" >>,
      from |-> << "f", "r", "o", "m" >>,
      port |-> << "p", "o", "r", "t" >>,
      invalid |-> << "i", "n", "v", "a", "l", "i", "d" >>,
      user |-> << "u", "s", "e", "r" >>,
      ssh2 |-> << "s", "s", "h", "2" >>,
      none |-> << "n", "o", "n", "e" >>,
      keyboard |-> << "k", "e", "y", "b", "o", "a", "r", "d", "-", "i", "n", "t",
          "e", "r", "a", "c", "t", "i", "v", "e", "/", "p", "a", "m" >>,
      bob |-> << "b", "o", "b" >>,
      admin |-> << "a", "d", "m", "i", "n" >>,
      root |-> << "r", "o", "o", "t" >>,
      addrA |-> << "1", "0", ".", "0", ".", "0", ".", "5" >>,
      addrB |-> << "1", ".", "2", ".", "3", ".", "4" >>,
      session |-> << "s", "e", "s", "s", "i", "o", "n" >>,
      opened |-> << "o", "p", "e", "n", "e", "d" >>,
      pam |-> << "p", "a", "m", "_", "u", "n", "i", "x", "(", "s", "s", "h", "d",
          ":", "s", "e", "s", "s", "i", "o", "n", ")", ":" >>,
      random |-> << "r", "a", "n", "d", "o", "m" >>,
      garbage |-> << "g", "a", "r", "b", "a", "g", "e" >>,
      Connection |-> << "C", "o", "n", "n", "e", "c", "t", "i", "o", "n" >>,
      closed |-> << "c", "l", "o", "s", "e", "d" >>,
      by |-> << "b", "y" >>,
      host |-> << "h", "o", "s", "t" >>,
      sshdTag |-> << "s", "s", "h", "d", "[", "1", "2", "3", "4", "5", "]", ":" >>,
      systemdTag |-> << "s", "y", "s", "t", "e", "m", "d", "[", "1", "]", ":" >>,
      clock |-> << "1", "4", ":", "3", "0", ":", "0", "0" >> ]

MsgAccepted == << W.Accepted, W.publickey, W.for, W.bob, W.from, W.addrA, W.port,
                  << "2", "2", "2", "2", "2" >>, W.ssh2 >>
MsgFailed == << W.Failed, W.password, W.for, W.invalid, W.user, W.admin, W.from, W.addrB,
                W.port, << "9" >>, W.ssh2 >>
MsgSession == << W.pam, W.session, W.opened, W.for, W.user, W.root >>

\* The largest int, 2^31 - 1: of a build with 32 bit int (on a build with 64
\* bit int it is 2^63 - 1, and the conversion saturates there in the same way).
MaxInt == (2^30 - 1) + 2^30

\* strconv.Atoi from the k-th digit of s on, n being the value of the digits
\* before: a value past MaxInt is a range error, returned with MaxInt.
RECURSIVE atoiFrom(_, _, _)
atoiFrom(s, k, n) ==
    IF k > Len(s) THEN [err |-> FALSE, n |-> n]
    ELSE IF n > (MaxInt - DigitVal(s[k])) \div 10 THEN [err |-> TRUE, n |-> MaxInt]
    ELSE atoiFrom(s, k + 1, n * 10 + DigitVal(s[k]))

\* strconv.Atoi on a sequence of digits.
Atoi(s) == atoiFrom(s, 1, 0)

\* (\d+) at the start of a word: the longest run of digits the word starts with.
Digits(w) ==
    SubSeq(w, 1, CHOOSE k \in 0..Len(w) :
                    /\ \A j \in 1..k : IsDigit(w[j])
                    /\ k = Len(w) \/ ~IsDigit(w[k + 1]))

\* Methods that take every method sshd names.
Methods_any == {W.password, W.publickey, W.none, W.keyboard}

Methods == {W.password, W.publickey}

Word(msg, k) == IF k <= Len(msg) THEN msg[k] ELSE << >>

\* A parseMessageSuccess that takes the address for the user and the user
\* for the address.
parseMessageSuccess_swapped(message, timestamp) ==
    IF /\ Word(message, 1) = W.Accepted
       /\ Word(message, 2) \in Methods
       /\ Word(message, 3) = W.for
       /\ Len(message) >= 8
       /\ Word(message, 5) = W.from
       /\ Word(message, 7) = W.port
       /\ Digits(Word(message, 8)) # << >>
    THEN [Timestamp |-> timestamp, EventType |-> EventSuccess,
          Username |-> message[6], IP |-> message[4],
          Port |-> Atoi(Digits(message[8])).n, Method |-> message[2],
          InvalidUser |-> FALSE]
    ELSE Nil

\* messageSuccessPattern, on words, and the Event of its groups; the error of
\* Atoi is dropped.
parseMessageSuccess(message, timestamp) ==
    IF /\ Word(message, 1) = W.Accepted
       /\ Word(message, 2) \in Methods
       /\ Word(message, 3) = W.for
       /\ Len(message) >= 8
       /\ Word(message, 5) = W.from
       /\ Word(message, 7) = W.port
       /\ Digits(Word(message, 8)) # << >>
    THEN [Timestamp |-> timestamp, EventType |-> EventSuccess,
          Username |-> message[4], IP |-> message[6],
          Port |-> Atoi(Digits(message[8])).n, Method |-> message[2],
          InvalidUser |-> FALSE]
    ELSE Nil

\* A parseMessageFailure that takes the word after "for" as the user.
parseMessageFailure_firstWord(message, timestamp) ==
    LET marked == Word(message, 4) = W.invalid /\ Word(message, 5) = W.user
                    /\ Word(message, 7) = W.from
        k == IF marked THEN 2 ELSE 0
    IN  IF /\ Word(message, 1) = W.Failed
           /\ Word(message, 2) \in Methods
           /\ Word(message, 3) = W.for
           /\ Len(message) >= 8 + k
           /\ Word(message, 5 + k) = W.from
           /\ Word(message, 7 + k) = W.port
           /\ Digits(Word(message, 8 + k)) # << >>
        THEN [Timestamp |-> timestamp, EventType |-> EventFailure,
              Username |-> message[4], IP |-> message[6 + k],
              Port |-> Atoi(Digits(message[8 + k])).n, Method |-> message[2],
              InvalidUser |-> marked]
        ELSE Nil

\* messageFailedPattern, on words: k is 2 with the "invalid user" marker.
parseMessageFailure(message, timestamp) ==
    LET marked == Word(message, 4) = W.invalid /\ Word(message, 5) = W.user
                    /\ Word(message, 7) = W.from
        k == IF marked THEN 2 ELSE 0
    IN  IF /\ Word(message, 1) = W.Failed
           /\ Word(message, 2) \in Methods
           /\ Word(message, 3) = W.for
           /\ Len(message) >= 8 + k
           /\ Word(message, 5 + k) = W.from
           /\ Word(message, 7 + k) = W.port
           /\ Digits(Word(message, 8 + k)) # << >>
        THEN [Timestamp |-> timestamp, EventType |-> EventFailure,
              Username |-> message[4 + k], IP |-> message[6 + k],
              Port |-> Atoi(Digits(message[8 + k])).n, Method |-> message[2],
              InvalidUser |-> marked]
        ELSE Nil

\* A ParseMessage that remembers it was called: it parses only when no call
\* was made before.
ParseMessage_once(message, timestamp) ==
    IF parseCalls # << >> THEN Nil
    ELSE IF parseMessageSuccess(message, timestamp) # Nil
         THEN parseMessageSuccess(message, timestamp)
         ELSE parseMessageFailure(message, timestamp)

ParseMessage(message, timestamp) ==
    IF parseMessageSuccess(message, timestamp) # Nil
    THEN parseMessageSuccess(message, timestamp)
    ELSE parseMessageFailure(message, timestamp)

\* The letters: \w of the line patterns is a letter, a digit or "_".
Letters ==
    [ upper |-> << "A", "B", "C", "D", "E", "F", "G", "H", "I", "J", "K", "L", "M",
                   "N", "O", "P", "Q", "R", "S", "T", "U", "V", "W", "X", "Y", "Z" >>,
      lower |-> << "a", "b", "c", "d", "e", "f", "g", "h", "i", "j", "k", "l", "m",
                   "n", "o", "p", "q", "r", "s", "t", "u", "v", "w", "x", "y", "z" >> ]

\* package time's lower: a letter folded to lower case.
lower(c) ==
    IF \E i \in DOMAIN Letters.upper : c = Letters.upper[i]
    THEN Letters.lower[CHOOSE i \in DOMAIN Letters.upper : c = Letters.upper[i]]
    ELSE c

\* package time's shortMonthNames.
shortMonthNames ==
    << << "J", "a", "n" >>, << "F", "e", "b" >>, << "M", "a", "r" >>,
       << "A", "p", "r" >>, << "M", "a", "y" >>, << "J", "u", "n" >>,
       << "J", "u", "l" >>, << "A", "u", "g" >>, << "S", "e", "p" >>,
       << "O", "c", "t" >>, << "N", "o", "v" >>, << "D", "e", "c" >>  >>

\* package time's lookup in shortMonthNames, letters compared without case:
\* the number of the month, 0 for no month.
lookupMonth(w) ==
    IF \E m \in DOMAIN shortMonthNames :
            \A j \in 1..3 : lower(w[j]) = lower(shortMonthNames[m][j])
    THEN CHOOSE m \in DOMAIN shortMonthNames :
            \A j \in 1..3 : lower(w[j]) = lower(shortMonthNames[m][j])
    ELSE 0

\* The head the two line patterns share: the three words of the time stamp,
\* \w{3}, \d{1,2} and \d{2}:\d{2}:\d{2}, the host, and the tag sshd\[\d+\]:
StampMatches(line) ==
    /\ Len(line) >= 5
    /\ Len(line[1]) = 3
    /\ \A j \in 1..3 :
          \/ IsDigit(line[1][j])
          \/ line[1][j] = "_"
          \/ \E i \in DOMAIN Letters.upper :
                line[1][j] = Letters.upper[i] \/ line[1][j] = Letters.lower[i]
    /\ Len(line[2]) \in 1..2
    /\ \A j \in DOMAIN line[2] : IsDigit(line[2][j])
    /\ Len(line[3]) = 8
    /\ line[3][3] = ":" /\ line[3][6] = ":"
    /\ \A j \in {1, 2, 4, 5, 7, 8} : IsDigit(line[3][j])
    /\ Len(line[5]) >= 8
    /\ SubSeq(line[5], 1, 5) = << "s", "s", "h", "d", "[" >>
    /\ \A j \in 6..(Len(line[5]) - 2) : IsDigit(line[5][j])
    /\ SubSeq(line[5], Len(line[5]) - 1, Len(line[5])) = << "]", ":" >>

\* package time's cutspace: s without the spaces it starts with.
cutspace(s) ==
    SubSeq(s, 1 + (CHOOSE k \in 0..Len(s) :
                      /\ \A j \in 1..k : s[j] = " "
                      /\ k = Len(s) \/ s[k + 1] # " "), Len(s))

\* package time's skip for a space of the layout: the value has to go on with
\* a space or to be at its end, and the spaces it goes on with are cut.
skipSpace(s) ==
    IF Len(s) > 0 /\ s[1] # " " THEN [err |-> TRUE, rest |-> s]
    ELSE [err |-> FALSE, rest |-> cutspace(s)]

\* The parser's parseTimestamp(ts, year): time.Parse with the layout
\* "Jan 2 15:04:05" on the characters of the time stamp, then time.Date with
\* the year in time.Local, which runs a day past the end of the month on into
\* the next.  A space of the layout takes any number of spaces, so that the
\* second layout, "Jan  2 15:04:05", takes the same time stamps.  time.Parse
\* validates the day in the year 0, a leap year.  The instant is kept as its
\* reading in time.Local.
parseTimestampOfYear(ts, year) ==
    LET month == lookupMonth(ts)
        gap == skipSpace(SubSeq(ts, 4, Len(ts)))
        day == getnum(gap.rest, FALSE)
        daysIn == CASE month = 2 -> 29 [] month \in {4, 6, 9, 11} -> 30 [] OTHER -> 31
        clock == skipSpace(day.rest).rest
        hour == getnum(SubSeq(clock, 1, 2), TRUE).n
        minute == getnum(SubSeq(clock, 4, 5), TRUE).n
        second == getnum(SubSeq(clock, 7, 8), TRUE).n
    IN  IF \/ month = 0
           \/ gap.err \/ day.err
           \/ day.n < 1 \/ day.n > daysIn
           \/ hour >= 24 \/ minute >= 60 \/ second >= 60
        THEN [err |-> TRUE, time |-> ZeroTime]
        ELSE [err |-> FALSE,
              time |-> [date |-> CivilFromDays(DaysFromCivil(year, month, day.n)),
                        hour |-> hour, minute |-> minute, second |-> second,
                        loc |-> "Local"]]

\* A line is its words and the white space between the month and the day;
\* the other words are one space apart.  The first group of the line patterns
\* is the text of the time stamp.
Stamp(line) ==
    line.words[1] \o line.gap \o line.words[2] \o << " " >> \o line.words[3]

\* successPattern is the head followed by messageSuccessPattern.
parseSuccess(line, year) ==
    IF ~StampMatches(line.words) THEN Nil
    ELSE IF parseMessageSuccess(SubSeq(line.words, 6, Len(line.words)), Nil) = Nil
         THEN Nil
    ELSE IF parseTimestampOfYear(Stamp(line), year).err THEN Nil
    ELSE parseMessageSuccess(SubSeq(line.words, 6, Len(line.words)),
                             parseTimestampOfYear(Stamp(line), year).time)

\* failedPattern is the head followed by messageFailedPattern.
parseFailure(line, year) ==
    IF ~StampMatches(line.words) THEN Nil
    ELSE IF parseMessageFailure(SubSeq(line.words, 6, Len(line.words)), Nil) = Nil
         THEN Nil
    ELSE IF parseTimestampOfYear(Stamp(line), year).err THEN Nil
    ELSE parseMessageFailure(SubSeq(line.words, 6, Len(line.words)),
                             parseTimestampOfYear(Stamp(line), year).time)

ParseLine(line, year) ==
    IF parseSuccess(line, year) # Nil
    THEN parseSuccess(line, year)
    ELSE parseFailure(line, year)

\* Reader.parseTimestamp: the microseconds of __REALTIME_TIMESTAMP as an
\* instant of seconds and nanoseconds.
parseTimestamp(ts) ==
    LET usec == CHOOSE k \in 0..(MaxRecords + 1) : ToString(k) = ts
    IN  [sec |-> usec \div 1000000, nsec |-> (usec % 1000000) * 1000]

\* The n-th record the subprocess may write: a line that is no JSON object, a
\* record of another unit, and records of sshd with each kind of message.
Records(n) ==
    { [json |-> FALSE, SyslogIdentifier |-> "", Message |-> << >>,
       RealtimeTimestamp |-> ""],
      [json |-> TRUE, SyslogIdentifier |-> "cron", Message |-> MsgAccepted,
       RealtimeTimestamp |-> ToString(n)],
      [json |-> TRUE, SyslogIdentifier |-> "sshd", Message |-> MsgSession,
       RealtimeTimestamp |-> ToString(n)],
      [json |-> TRUE, SyslogIdentifier |-> "sshd-session", Message |-> MsgAccepted,
       RealtimeTimestamp |-> ToString(n)],
      [json |-> TRUE, SyslogIdentifier |-> "sshd", Message |-> MsgFailed,
       RealtimeTimestamp |-> ToString(n)] }

\* A parseJournalLine that takes the records of every unit.
parseJournalLine_anyUnit(line) ==
    IF ~line.json THEN Nil
    ELSE ParseMessage(line.Message, parseTimestamp(line.RealtimeTimestamp))

\* Reader.parseJournalLine
parseJournalLine(line) ==
    IF ~line.json THEN Nil
    ELSE IF line.SyslogIdentifier # "sshd" /\ line.SyslogIdentifier # "sshd-session"
         THEN Nil
         ELSE ParseMessage(line.Message, parseTimestamp(line.RealtimeTimestamp))

MainVars == << cfg, parseCalls, ToolVars, mainPc, runErr, sigPending, geoip, storage, teardown >>

\* The subprocess exits: by itself, or killed.
ProcExit ==
    /\ procState \in {"running", "killed"}
    /\ procState' = "exited"
    /\ UNCHANGED << nRecords, readerPc, pending, events, chanClosed, text, parsed, sent,
                    cancelled >>
    /\ UNCHANGED << MainVars, SchedVars, EventVars >>

\* exec.CommandContext: the context is cancelled and the subprocess killed.
CtxKill ==
    /\ cancelled
    /\ procState = "running"
    /\ procState' = "killed"
    /\ UNCHANGED << nRecords, readerPc, pending, events, chanClosed, text, parsed, sent,
                    cancelled >>
    /\ UNCHANGED << MainVars, SchedVars, EventVars >>

\* scanner.Scan returns a line: it is parsed, and an event goes to the send.
ReaderScan ==
    /\ readerPc = "scan"
    /\ procState \in {"running", "killed"}
    /\ nRecords < MaxRecords
    /\ nRecords' = nRecords + 1
    /\ \E line \in Records(nRecords + 1) :
          LET event == parseJournalLine(line)
          IN  /\ text' = line
              /\ IF event # Nil
                 THEN /\ pending' = event
                      /\ parsed' = Append(parsed, event)
                      /\ readerPc' = "send"
                 ELSE UNCHANGED << pending, parsed, readerPc >>
    /\ UNCHANGED << procState, events, chanClosed, sent, cancelled >>
    /\ UNCHANGED << MainVars, SchedVars, EventVars >>

\* A reader that returns at the end of the output and leaves the channel open.
ReaderEnd_open ==
    /\ readerPc = "scan"
    /\ procState = "exited"
    /\ readerPc' = "done"
    /\ UNCHANGED << procState, nRecords, pending, events, chanClosed, text, parsed, sent,
                    cancelled >>
    /\ UNCHANGED << MainVars, SchedVars, EventVars >>

\* scanner.Scan returns false at the end of the subprocess's output: the
\* goroutine returns and its deferred close runs.
ReaderEnd ==
    /\ readerPc = "scan"
    /\ procState = "exited"
    /\ readerPc' = "done"
    /\ chanClosed' = TRUE
    /\ UNCHANGED << procState, nRecords, pending, events, text, parsed, sent, cancelled >>
    /\ UNCHANGED << MainVars, SchedVars, EventVars >>

\* A channel without a bound.
CanSend_unbounded == TRUE

\* The channel has room.
CanSend == Len(events) < ChanCap

\* case r.events <- event
ReaderSend ==
    /\ readerPc = "send"
    /\ CanSend
    /\ events' = Append(events, pending)
    /\ sent' = Append(sent, pending)
    /\ pending' = Nil
    /\ readerPc' = "scan"
    /\ UNCHANGED << procState, nRecords, chanClosed, text, parsed, cancelled >>
    /\ UNCHANGED << MainVars, SchedVars, EventVars >>

\* A send that does not watch the context.
ReaderCtxDone_deaf ==
    /\ readerPc = "send"
    /\ cancelled
    /\ UNCHANGED vars

\* case <-ctx.Done(): the goroutine returns and its deferred close runs.
ReaderCtxDone ==
    /\ readerPc = "send"
    /\ cancelled
    /\ pending' = Nil
    /\ readerPc' = "done"
    /\ chanClosed' = TRUE
    /\ UNCHANGED << procState, nRecords, events, text, parsed, sent, cancelled >>
    /\ UNCHANGED << MainVars, SchedVars, EventVars >>

(***************************************************************************)
(* The main loop of Daemon.Run, processEvent and shutdown.                 *)
(***************************************************************************)
\* The OS delivers a termination signal to sigCh (buffered, of capacity 1).
\* A signal that arrives once the shutdown has begun is read by nobody.
SignalArrives ==
    /\ mainPc \notin {"stop", "geoClose", "storeClose", "returned"}
    /\ ~sigPending
    /\ sigPending' = TRUE
    /\ UNCHANGED << cfg, parseCalls, ToolVars, mainPc, runErr, cancelled, geoip, storage, teardown >>
    /\ UNCHANGED << PipeVars, SchedVars, EventVars >>

\* A main loop that receives while a processEvent call is in progress.
AtSelect_any == mainPc \in {"select", "lookup", "insert", "alert"}

\* The main loop stands at its select: no processEvent call is in progress.
AtSelect == mainPc = "select"

\* case sig := <-sigCh: cancel(), then shutdown().
MainSignal ==
    /\ AtSelect
    /\ sigPending
    /\ sigPending' = FALSE
    /\ cancelled' = TRUE
    /\ mainPc' = "stop"
    /\ UNCHANGED << cfg, parseCalls, ToolVars, runErr, geoip, storage, teardown >>
    /\ UNCHANGED << PipeVars, SchedVars, EventVars >>

\* A receive that takes the newest event of the buffer.
RecvValue_newest(buf) == buf[Len(buf)]

\* The event a receive takes from the channel's buffer, and what it leaves.
RecvValue(buf) == Head(buf)
RecvRest(buf) == Tail(buf)

\* case event := <-d.journal.Events(), an event: processEvent is called.
MainEvent ==
    /\ AtSelect
    /\ events # << >>
    /\ cur' = RecvValue(events)
    /\ events' = RecvRest(events)
    /\ processed' = Append(processed, RecvValue(events))
    /\ inProgress' = inProgress \cup {RecvValue(events)}
    /\ procCalls' = << >>
    /\ place' = ""
    /\ mainPc' = "lookup"
    /\ UNCHANGED << cfg, parseCalls, ToolVars, runErr, cancelled, sigPending, geoip, storage, teardown >>
    /\ UNCHANGED << procState, nRecords, readerPc, pending, chanClosed, text, parsed, sent >>
    /\ UNCHANGED SchedVars

\* A main loop that receives nil from the closed channel and loops on.
MainClosed_loop ==
    /\ AtSelect
    /\ events = << >>
    /\ chanClosed
    /\ mainPc' = "select"
    /\ UNCHANGED << cfg, parseCalls, ToolVars, runErr, cancelled, sigPending, geoip, storage, teardown >>
    /\ UNCHANGED << PipeVars, SchedVars, EventVars >>

\* case event := <-d.journal.Events(), nil from the closed channel: shutdown().
MainClosed ==
    /\ AtSelect
    /\ events = << >>
    /\ chanClosed
    /\ mainPc' = "stop"
    /\ UNCHANGED << cfg, parseCalls, ToolVars, runErr, cancelled, sigPending, geoip, storage, teardown >>
    /\ UNCHANGED << PipeVars, SchedVars, EventVars >>

\* d.geoip.Lookup(event.IP): an error, no location, or the place.
LookupResults == {"error", "miss", "found"}

Lookup(event, result) ==
    [call |-> "Lookup", event |-> event,
     place |-> IF result = "found" THEN "found" ELSE "", err |-> result = "error"]

\* A processEvent that gives the event up when the lookup fails.
ProcLookup_strict ==
    /\ mainPc = "lookup"
    /\ IF geoip # "nil"
       THEN \E result \in LookupResults :
               /\ place' = Lookup(cur, result).place
               /\ procCalls' = Append(procCalls, Lookup(cur, result))
               /\ mainPc' = IF result = "error" THEN "select" ELSE "insert"
               /\ inProgress' = IF result = "error" THEN inProgress \ {cur}
                                ELSE inProgress
       ELSE /\ mainPc' = "insert"
            /\ UNCHANGED << place, procCalls, inProgress >>
    /\ UNCHANGED << cfg, parseCalls, ToolVars, runErr, cancelled, sigPending, geoip, storage, teardown >>
    /\ UNCHANGED << cur, processed >>
    /\ UNCHANGED << PipeVars, SchedVars >>

\* processEvent: the GeoIP lookup, when a resolver is loaded.  The lookup
\* fails, finds nothing, or finds the place.
ProcLookup ==
    /\ mainPc = "lookup"
    /\ IF geoip # "nil"
       THEN \E result \in LookupResults :
               /\ place' = Lookup(cur, result).place
               /\ procCalls' = Append(procCalls, Lookup(cur, result))
       ELSE UNCHANGED << place, procCalls >>
    /\ mainPc' = "insert"
    /\ UNCHANGED << cfg, parseCalls, ToolVars, runErr, cancelled, sigPending, geoip, storage, teardown >>
    /\ UNCHANGED << cur, processed, inProgress >>
    /\ UNCHANGED << PipeVars, SchedVars >>

\* The calls of processEvent: the event, the country and city ("" or "found")
\* and whether the call returned without an error.
InsertEvent(event, location, ok) ==
    [call |-> "InsertEvent", event |-> event, place |-> location, err |-> ~ok]

SendLoginAlert(event, location, ok) ==
    [call |-> "SendLoginAlert", event |-> event, place |-> location, err |-> ~ok]

\* processEvent returns to the main loop, after the call it made last.
ProcReturn(call) ==
    /\ mainPc' = "select"
    /\ inProgress' = inProgress \ {cur}
    /\ procCalls' = Append(procCalls, call)
    /\ UNCHANGED << cfg, parseCalls, ToolVars, runErr, cancelled, sigPending, geoip, storage, teardown >>
    /\ UNCHANGED << cur, place, processed >>
    /\ UNCHANGED << PipeVars, SchedVars >>

\* A processEvent that calls InsertEvent again after an error.
ProcInsert_retry ==
    /\ mainPc = "insert"
    /\ \E ok \in BOOLEAN :
          IF ok /\ cur.EventType # EventSuccess
          THEN ProcReturn(InsertEvent(cur, place, ok))
          ELSE /\ mainPc' = IF ok THEN "alert" ELSE "insert"
               /\ procCalls' = Append(procCalls, InsertEvent(cur, place, ok))
               /\ Len(procCalls) < 2
               /\ UNCHANGED << cfg, parseCalls, ToolVars, runErr, cancelled, sigPending, geoip, storage,
                               teardown >>
               /\ UNCHANGED << cur, place, processed, inProgress >>
               /\ UNCHANGED << PipeVars, SchedVars >>

\* processEvent: InsertEvent; on an error it returns, after a success event
\* it goes on to the alert, after a failure event it returns.
ProcInsert ==
    /\ mainPc = "insert"
    /\ \E ok \in BOOLEAN :
          IF ok /\ cur.EventType = EventSuccess
          THEN /\ mainPc' = "alert"
               /\ procCalls' = Append(procCalls, InsertEvent(cur, place, ok))
               /\ UNCHANGED << cfg, parseCalls, ToolVars, runErr, cancelled, sigPending, geoip, storage,
                               teardown >>
               /\ UNCHANGED << cur, place, processed, inProgress >>
               /\ UNCHANGED << PipeVars, SchedVars >>
          ELSE ProcReturn(InsertEvent(cur, place, ok))

\* processEvent: SendLoginAlert, whose error is logged.
ProcAlert ==
    /\ mainPc = "alert"
    /\ \E ok \in BOOLEAN : ProcReturn(SendLoginAlert(cur, place, ok))

\* A Stop that waits for the subprocess to exit.
StopKills_wait(state) == IF state = "running" THEN "exited" ELSE state

\* Reader.Stop: the subprocess after r.cmd.Process.Kill(), which sends the
\* kill and does not wait; without a process nothing is done.
StopKills(state) == IF state = "running" THEN "killed" ELSE state

\* Reader.Stop: the errors it may return, nil without a process and the
\* result of Kill with one.
StopErrs(state) == IF state = "none" THEN {FALSE} ELSE BOOLEAN

\* A shutdown whose journal.Stop closes the events channel.
ShutStop_closes ==
    /\ mainPc = "stop"
    /\ procState' = StopKills(procState)
    /\ \E err \in StopErrs(procState) :
          teardown' = Append(teardown, [call |-> "journal.Stop", err |-> err])
    /\ chanClosed' = TRUE
    /\ mainPc' = "geoClose"
    /\ UNCHANGED << cfg, parseCalls, ToolVars, runErr, cancelled, sigPending, geoip, storage >>
    /\ UNCHANGED << nRecords, readerPc, pending, events, text, parsed, sent >>
    /\ UNCHANGED << SchedVars, EventVars >>

\* shutdown: d.journal.Stop(), which kills the subprocess and does not wait.
ShutStop ==
    /\ mainPc = "stop"
    /\ procState' = StopKills(procState)
    /\ \E err \in StopErrs(procState) :
          teardown' = Append(teardown, [call |-> "journal.Stop", err |-> err])
    /\ mainPc' = "geoClose"
    /\ UNCHANGED << cfg, parseCalls, ToolVars, runErr, cancelled, sigPending, geoip, storage >>
    /\ UNCHANGED << nRecords, readerPc, pending, events, chanClosed, text, parsed, sent >>
    /\ UNCHANGED << SchedVars, EventVars >>

\* A shutdown that gives up when journal.Stop has returned an error.
ShutGeoIP_abort ==
    /\ mainPc = "geoClose"
    /\ IF teardown[Len(teardown)].err
       THEN /\ Return("nil")
            /\ UNCHANGED << geoip, teardown, storage >>
       ELSE /\ mainPc' = "storeClose"
            /\ IF geoip # "nil"
               THEN /\ geoip' = "closed"
                    /\ \E err \in BOOLEAN :
                          teardown' = Append(teardown,
                                             [call |-> "geoip.Close", err |-> err])
               ELSE UNCHANGED << geoip, teardown >>
            /\ UNCHANGED << runErr, cancelled, storage >>
    /\ UNCHANGED << cfg, parseCalls, ToolVars, sigPending >>
    /\ UNCHANGED << PipeVars, SchedVars, EventVars >>

\* shutdown: d.geoip.Close(), when a resolver is loaded.
ShutGeoIP ==
    /\ mainPc = "geoClose"
    /\ IF geoip # "nil"
       THEN /\ geoip' = "closed"
            /\ \E err \in BOOLEAN :
                  teardown' = Append(teardown, [call |-> "geoip.Close", err |-> err])
       ELSE UNCHANGED << geoip, teardown >>
    /\ mainPc' = "storeClose"
    /\ UNCHANGED << cfg, parseCalls, ToolVars, runErr, cancelled, sigPending, storage >>
    /\ UNCHANGED << PipeVars, SchedVars, EventVars >>

\* shutdown: d.storage.Close(); shutdown returns nil and Run returns it.
ShutStorage ==
    /\ mainPc = "storeClose"
    /\ storage' = "closed"
    /\ \E err \in BOOLEAN :
          teardown' = Append(teardown, [call |-> "storage.Close", err |-> err])
    /\ Return("nil")
    /\ UNCHANGED << cfg, parseCalls, ToolVars, sigPending, geoip >>
    /\ UNCHANGED << PipeVars, SchedVars, EventVars >>

(***************************************************************************)
(* The specifications.                                                     *)
(***************************************************************************)
InitAt(configs, loaded, start) ==
    /\ cfg \in configs
    /\ mainPc = "start"
    /\ runErr = "none"
    /\ cancelled = FALSE
    /\ sigPending = FALSE
    /\ procState = "none"
    /\ nRecords = 0
    /\ readerPc = "none"
    /\ pending = Nil
    /\ events = << >>
    /\ chanClosed = FALSE
    /\ cur = Nil
    /\ place = ""
    \* daemon.New: the resolver is loaded when GeoIP is enabled and its
    \* database could be opened.
    /\ geoip \in (IF cfg.GeoIPEnabled
                  THEN { IF l THEN "open" ELSE "nil" : l \in loaded }
                  ELSE {"nil"})
    /\ storage = "open"
    /\ tasks = << >>
    /\ schedPc = "none"
    /\ schedI = 0
    /\ now = start[cfg]
    /\ running = {}
    /\ fired = << >>
    /\ tickLog = << >>
    /\ text = Nil
    /\ parsed = << >>
    /\ sent = << >>
    /\ processed = << >>
    /\ inProgress = {}
    /\ procCalls = << >>
    /\ parseCalls = << >>
    /\ rows = << >>
    /\ lastReport = Nil
    /\ files = [exe |-> "installed", temp |-> "absent"]
    /\ upgrade = Nil
    /\ teardown = << >>

InitWith(configs, loaded) ==
    InitAt(configs, loaded, [c \in configs |-> StartTime])

RunSteps ==
    \/ RunJournalStart
    \/ RunAddDailyReport
    \/ RunAddCleanup
    \/ RunAddGeoIP
    \/ RunGoScheduler

\* The daemon with its journal and its signals, over a stretch of time in
\* which no tick of the scheduler falls.
DaemonConfigs ==
    { c \in Configs : c.DailyReportEnabled /\ c.DailyReportTimezone = "UTC" }

Init == InitWith(DaemonConfigs, BOOLEAN)

ReaderStep == ReaderScan \/ ReaderEnd \/ ReaderSend \/ ReaderCtxDone

MainStep ==
    \/ RunSteps
    \/ MainSignal \/ MainEvent \/ MainClosed
    \/ ProcLookup \/ ProcInsert \/ ProcAlert
    \/ ShutStop \/ ShutGeoIP \/ ShutStorage

Next ==
    \/ MainStep
    \/ ReaderStep
    \/ SignalArrives
    \/ ProcExit
    \/ CtxKill
    \/ SchedCtxDone

Spec == Init /\ [][Next]_vars

\* The runs without GeoIP, where the goroutines are scheduled fairly and the
\* collaborators' calls return.
LiveInit == InitWith({ c \in DaemonConfigs : ~c.GeoIPEnabled }, {TRUE})

LiveSpec ==
    /\ LiveInit
    /\ [][Next]_vars
    /\ WF_vars(ReaderStep)
    /\ WF_vars(MainStep)

\* The runs of LiveSpec in which, besides, the cancellation of the context
\* reaches the subprocess and a killed subprocess exits.
KillSpec ==
    /\ LiveSpec
    /\ WF_vars(CtxKill)
    /\ WF_vars(procState = "killed" /\ ProcExit)

\* The scheduler over the days of ClockTimes, with a silent journal and no
\* termination signal.
SchedInit == InitWith(Configs, {TRUE})

SchedStep ==
    \/ SchedTick
    \/ SchedLoopEnd
    \/ SchedSkip
    \/ SchedInvoke
    \/ SchedTaskReturn

SchedNext == RunSteps \/ SchedStep

SchedSpec == SchedInit /\ [][SchedNext]_vars

(***************************************************************************)
(* The daemon on its 30 second ticker, over the trigger minutes of a day,  *)
(* with a silent journal.                                                  *)
(***************************************************************************)
MaxBusy == 4    \* the 30 second periods the actions of one checkTasks may take

\* The ticks at which no task is in its trigger minute change nothing and are
\* passed over: the first tick from t on that finds a task in its trigger
\* minute, or the end of the stretch.
NextTick(t) ==
    LET active == { u \in TriggerTicks[cfg] : u >= t }
    IN  IF active = {} THEN TickEnd(cfg)
        ELSE CHOOSE u \in active : \A v \in active : u <= v

\* The latest checkTasks called an action.
ActionRan == \E i \in DOMAIN tasks : tasks[i].lastRun = now

\* case <-ticker.C, on the ticker of 30 seconds: the next tick comes one
\* period after the last, or, when the actions of the last checkTasks took
\* longer, as soon as they have returned.
SchedTick30 ==
    /\ schedPc = "idle"
    /\ now < TickEnd(cfg)
    /\ \E k \in 1..MaxBusy :
          /\ k > 1 => ActionRan
          /\ now' = NextTick(now + k)
    /\ schedI' = 1
    /\ schedPc' = "loop"
    /\ tickLog' = << >>
    /\ UNCHANGED << cfg, parseCalls, ToolVars, mainPc, runErr, cancelled, sigPending, geoip, storage,
                    teardown, tasks, running, fired >>
    /\ UNCHANGED << PipeVars, EventVars >>

TickInit == InitAt(TickConfigs, {TRUE}, [c \in TickConfigs |-> TickStart(c)])

TickSchedStep ==
    \/ SchedLoopEnd
    \/ SchedSkip
    \/ SchedInvoke
    \/ SchedTaskReturn

TickNext ==
    \/ RunSteps
    \/ SchedTick30
    \/ TickSchedStep
    \/ SchedCtxDone
    \/ SignalArrives
    \/ MainSignal \/ MainClosed
    \/ ShutStop \/ ShutGeoIP \/ ShutStorage
    \/ ProcExit
    \/ CtxKill
    \/ ReaderEnd

\* The scheduler's goroutine runs, an action that was called returns, the
\* select of Start takes ctx.Done once no tick is left to take, and the
\* context's cancellation reaches the subprocess.
TickSpec ==
    /\ TickInit
    /\ [][TickNext]_vars
    /\ WF_vars(TickSchedStep)
    /\ WF_vars(SchedCtxDone)
    /\ WF_vars(CtxKill)

(***************************************************************************)
(* Properties of the scheduler, under SchedSpec.                           *)
(***************************************************************************)
Range(q) == { q[k] : k \in DOMAIN q }

\* C1: for every registered task and every calendar day in the task's zone,
\* the task's action is invoked at most once on that day, over any sequence of
\* ticks.
C1_AtMostOncePerLocalDay ==
    \A i \in DOMAIN fired : fired[i].count <= 1

\* The calendar by its table: the days of each month, and the leap years.
IsLeapYear(y) == (y % 4 = 0 /\ y % 100 # 0) \/ y % 400 = 0

DaysInMonth(y, m) ==
    IF m = 2 THEN (IF IsLeapYear(y) THEN 29 ELSE 28)
    ELSE IF m \in {4, 6, 9, 11} THEN 30 ELSE 31

IsFinalDay(tt) == Day(tt) = DaysInMonth(Year(tt), Month(tt))

MonthlyTasks == { i \in DOMAIN tasks : tasks[i].taskType = taskTypeMonthly }

\* C2: a monthly task is invoked only on a tick whose date in the task's zone
\* is the final calendar day of its month, and on such a day at its trigger
\* minute it is due unless it has run that day: Jan 31 and not Jan 30, Feb 28
\* of a common year, Feb 29 and not Feb 28 of a leap year.
C2_MonthlyOnlyOnFinalDay ==
    \A i \in MonthlyTasks :
        /\ i \in running => IsFinalDay(In(now, tasks[i].location))
        /\ ( /\ schedPc = "loop"
             /\ schedI = i
             /\ TriggerMinute(tasks[i], now)
             /\ NotRunToday(tasks[i], now)
             /\ IsFinalDay(In(now, tasks[i].location)) )
           => Due(tasks[i], now)

\* A monthly task is running on Feb 29 of a leap year.
C2_Witness ==
    \E i \in MonthlyTasks :
        /\ i \in running
        /\ Civil(In(now, tasks[i].location)) = [year |-> 2024, month |-> 2, day |-> 29]

\* C6: within one tick the due tasks are invoked one at a time in the order of
\* their registration: an action starts after the actions of the earlier due
\* tasks of the tick have returned, and no two actions execute at once.
C6_OneAtATimeInOrder ==
    /\ Cardinality(running) <= 1
    /\ \A k \in 1..(Len(tickLog) - 1) : tickLog[k] < tickLog[k + 1]
    /\ running \subseteq Range(tickLog)
    /\ running # {} => running = {tickLog[Len(tickLog)]}

\* The second due task of a tick is running.
C6_Witness ==
    /\ Len(tickLog) = 2
    /\ running = {tickLog[2]}

\* C7: when a due task's action returns an error, the other tasks due in the
\* tick are still invoked in it, the failed task's last run is set as for a
\* success, and the failed task is not invoked again on the same local day.
C7_NoDueTaskPassedOver ==
    schedPc \in {"loop", "task"} =>
        \A j \in 1..(schedI - 1) :
            j \in Range(tickLog) \/ ~Due(tasks[j], now)

C7_LastRunSet ==
    \A j \in Range(tickLog) : j \notin running => tasks[j].lastRun = now

C7_NoRetryAfterFailure ==
    \A i \in running : ~fired[i].failed

C7_ErrorIsolatedNoRetry ==
    /\ C7_NoDueTaskPassedOver
    /\ C7_LastRunSet
    /\ C7_NoRetryAfterFailure

(***************************************************************************)
(* Properties of the event pipeline and the shutdown, under Spec and       *)
(* LiveSpec.                                                               *)
(***************************************************************************)
IsPrefix(p, q) ==
    /\ Len(p) <= Len(q)
    /\ \A k \in 1..Len(p) : p[k] = q[k]

\* C3: the sequence of events passed to processEvent is always a prefix of the
\* sequence the reader sent on the channel, in the same order, and no event is
\* processed twice.
C3_ProcessedPrefixOfSent ==
    /\ IsPrefix(processed, sent)
    /\ \A k, l \in 1..Len(processed) : processed[k] = processed[l] => k = l

\* Two events have been processed while a third was in the channel.
C3_Witness ==
    /\ Len(processed) = 2
    /\ Len(sent) = 3

\* C4: every event the reader has sent on the channel is eventually passed to
\* processEvent, in every run, a termination signal with events still in the
\* channel included.
C4_SentEventuallyProcessed ==
    \A k \in 1..MaxRecords : (Len(sent) >= k) ~> (Len(processed) >= k)

\* The event the reader holds at its send, if any.
PendingSeq == IF readerPc = "send" THEN << pending >> ELSE << >>

ProducerBlocked ==
    /\ readerPc = "send"
    /\ Len(events) = ChanCap
    /\ ~cancelled

\* C5: the channel never holds more than its capacity; at a full channel, and
\* without a cancellation, the producer waits at its send with the pending
\* event and reads no record; nothing is dropped or overwritten: the events
\* processed, then those in the channel, then the pending one are the parsed
\* events in their order.
C5_BackPressure ==
    /\ Len(events) <= ChanCap
    /\ sent = processed \o events
    /\ ~cancelled => parsed = sent \o PendingSeq
    /\ ProducerBlocked => /\ pending # Nil
                          /\ ~ENABLED ReaderStep

\* The producer waits at a full channel while the consumer has yet to receive.
C5_Witness ==
    /\ ProducerBlocked
    /\ processed = << >>

\* C8: the main loop never has two processEvent calls in progress: an event is
\* received only once the call for the previous one has returned.
C8_OneEventAtATime ==
    /\ Cardinality(inProgress) <= 1
    /\ mainPc \in {"lookup", "insert", "alert"} => inProgress = {cur}
    /\ mainPc = "select" => inProgress = {}

\* A second event is in processEvent while a third waits in the channel.
C8_Witness ==
    /\ Len(processed) = 2
    /\ inProgress = {processed[2]}
    /\ events # << >>

Calls(log) == [k \in DOMAIN log |-> log[k].call]

TeardownOrder ==
    << "journal.Stop" >>
    \o (IF geoip # "nil" THEN << "geoip.Close" >> ELSE << >>)
    \o << "storage.Close" >>

\* C9: on both shutdown triggers the teardown calls journal Stop, then the
\* resolver's Close when a resolver exists, then the storage's Close, in that
\* order, and each later step is attempted whatever error an earlier one
\* returned.
C9_TeardownOrder ==
    /\ IsPrefix(Calls(teardown), TeardownOrder)
    /\ mainPc = "geoClose" => Len(teardown) = 1
    /\ (mainPc = "returned" /\ runErr = "nil") => Calls(teardown) = TeardownOrder

\* The shutdown has run to its end although Stop and the resolver's Close
\* returned errors.
C9_Witness ==
    /\ mainPc = "returned"
    /\ Len(teardown) = 3
    /\ teardown[1].err
    /\ teardown[2].err

\* C10: once the subprocess has terminated, the events channel is eventually
\* closed by the reader goroutine.
C10_ExitLeadsToClose ==
    (procState = "exited") ~> chanClosed

\* The reader has closed the channel after the subprocess's exit, with no
\* cancellation raised.
C10_Witness ==
    /\ procState = "exited"
    /\ chanClosed
    /\ ~cancelled

ShutdownPcs == {"stop", "geoClose", "storeClose"}

\* C11: when the main loop observes the closed channel it processes no further
\* event, runs the shutdown and Run returns without an error; it does not go
\* back to its select.
C11_ClosedChannelShutsDown ==
    /\ [][(mainPc \in ShutdownPcs) =>
            (processed' = processed /\ mainPc' \in ShutdownPcs \cup {"returned"})]_vars
    /\ [][(mainPc = "returned") => (mainPc' = "returned" /\ processed' = processed)]_vars
    /\ (mainPc = "select" /\ chanClosed /\ events = << >>)
          ~> (mainPc = "returned" /\ runErr = "nil")

\* The shutdown started by the closed channel, with no signal and no
\* cancellation, is at its last step after an event was processed.
C11_Witness ==
    /\ mainPc = "storeClose"
    /\ ~cancelled
    /\ ~sigPending
    /\ chanClosed
    /\ processed # << >>

(***************************************************************************)
(* Properties of the daemon on its ticker, under TickSpec.                 *)
(***************************************************************************)
\* C12: once the cancellation is raised the subprocess is terminated and the
\* scheduler's tick loop eventually exits; after the loop has exited no task
\* action is invoked any more.
C12_CancellationPropagates ==
    /\ (cancelled /\ procState = "running") ~> (procState \in {"killed", "exited"})
    /\ (cancelled /\ schedPc \in {"idle", "loop", "task"}) ~> (schedPc = "stopped")
    /\ [][(schedPc = "stopped") =>
            (schedPc' = "stopped" /\ fired' = fired /\ running' = {})]_vars

\* The loop has exited on the cancellation after a task was invoked, and the
\* subprocess is gone.
C12_Witness ==
    /\ cancelled
    /\ schedPc = "stopped"
    /\ procState \in {"killed", "exited"}
    /\ \E i \in DOMAIN fired : fired[i].count > 0

(***************************************************************************)
(* The scheduler over restarts of the process.                             *)
(***************************************************************************)
\* The process ends between two ticks and runDaemon is started again with
\* the same configuration: daemon.New builds a new Daemon and a new
\* Scheduler.  The clock goes on, and so does the record of what was invoked.
Restart ==
    /\ mainPc = "select"
    /\ schedPc = "idle"
    /\ mainPc' = "start"
    /\ runErr' = "none"
    /\ cancelled' = FALSE
    /\ sigPending' = FALSE
    /\ procState' = "none"
    /\ nRecords' = 0
    /\ readerPc' = "none"
    /\ pending' = Nil
    /\ events' = << >>
    /\ chanClosed' = FALSE
    /\ cur' = Nil
    /\ place' = ""
    /\ geoip' \in (IF cfg.GeoIPEnabled THEN {"open", "nil"} ELSE {"nil"})
    /\ storage' = "open"
    /\ tasks' = << >>
    /\ schedPc' = "none"
    /\ schedI' = 0
    /\ running' = {}
    /\ tickLog' = << >>
    /\ text' = Nil
    /\ parsed' = << >>
    /\ sent' = << >>
    /\ processed' = << >>
    /\ inProgress' = {}
    /\ procCalls' = << >>
    /\ teardown' = << >>
    /\ UNCHANGED << cfg, parseCalls, ToolVars, now, fired >>

RestartConfigs ==
    { c \in Configs : c.DailyReportTimezone = "UTC" /\ c.DailyReportTime = T0400 }

RestartInit == InitWith(RestartConfigs, {TRUE})

RestartNext == RunSteps \/ SchedStep \/ Restart

RestartSpec == RestartInit /\ [][RestartNext]_vars

(***************************************************************************)
(* The scheduler's registry under any caller of AddDailyTask and           *)
(* AddMonthlyTask.                                                         *)
(***************************************************************************)
MaxTasks == 3    \* the registrations of one run

TaskNames == {"daily-report", "retention-cleanup", "geoip-update"}

\* One call of AddDailyTask or of AddMonthlyTask, with any name, time string
\* and zone.
RegistryAdd ==
    /\ Len(tasks) < MaxTasks
    /\ \E name \in TaskNames, timeStr \in {T0400, T2400},
          timezone \in {"UTC", "Mars/Phobos"}, monthly \in BOOLEAN :
          LET r == IF monthly
                   THEN AddMonthlyTask(tasks, name, timeStr, timezone, "action")
                   ELSE AddDailyTask(tasks, name, timeStr, timezone, "action")
          IN  /\ tasks' = r.tasks
              /\ fired' = [i \in 1..Len(r.tasks) |->
                              IF i \in DOMAIN fired THEN fired[i] ELSE NeverFired]
    /\ UNCHANGED << cfg, parseCalls, ToolVars, mainPc, runErr, cancelled, sigPending, geoip, storage,
                    teardown, schedPc, schedI, now, running, tickLog >>
    /\ UNCHANGED << PipeVars, EventVars >>

RegistryInit == InitWith(RestartConfigs, {TRUE})

RegistryNext == RegistryAdd

RegistrySpec == RegistryInit /\ [][RegistryNext]_vars

(***************************************************************************)
(* The journal reader under any caller of Start and Stop, with nobody      *)
(* receiving from its channel.                                             *)
(***************************************************************************)
MaxStops == 2    \* the calls of Stop in one run

\* One call of Reader.Stop, before Start or after it.
ReaderStop ==
    /\ Len(teardown) < MaxStops
    /\ procState' = StopKills(procState)
    /\ \E err \in StopErrs(procState) :
          teardown' = Append(teardown, [call |-> "journal.Stop", err |-> err])
    /\ UNCHANGED << cfg, parseCalls, ToolVars, mainPc, runErr, cancelled, sigPending, geoip, storage >>
    /\ UNCHANGED << nRecords, readerPc, pending, events, chanClosed, text, parsed,
                    sent >>
    /\ UNCHANGED << SchedVars, EventVars >>

StopInit == InitWith(RestartConfigs, {TRUE})

StopNext ==
    \/ RunJournalStart
    \/ ReaderScan \/ ReaderSend \/ ReaderEnd
    \/ ProcExit
    \/ ReaderStop

StopSpec == StopInit /\ [][StopNext]_vars

(***************************************************************************)
(* C13: a Daily task is invoked exactly once during a day in which the     *)
(* scheduler ticks through the task's trigger minute, and not at all on a  *)
(* day whose trigger minute the scheduler did not live to see.             *)
(***************************************************************************)
DailyTasks == { i \in DOMAIN tasks : tasks[i].taskType = taskTypeDaily }

\* The checkTasks of a tick inside the trigger minute of task i has finished.
TickedThrough(i) ==
    /\ schedPc = "idle"
    /\ TriggerMinute(tasks[i], now)
    /\ now > TickStart(cfg)

\* The loop has exited before any tick of the stretch read the trigger minute
\* of task i on the local date d.
StoppedBefore(i, d) ==
    /\ schedPc = "stopped"
    /\ \A u \in TriggerTicks[cfg] :
          (TriggerMinute(tasks[i], u) /\ LocalDate(tasks[i], u) = d) => now < u

\* C13: at the end of a checkTasks inside the trigger minute of a Daily task,
\* the task has been invoked exactly once on that local day; and once the
\* loop has exited before the trigger minute of a day, the task has not been
\* invoked on that day.
C13_ExactlyOncePerDay ==
    \A i \in DailyTasks :
        /\ TickedThrough(i) =>
              (fired[i].date = LocalDate(tasks[i], now) /\ fired[i].count = 1)
        /\ \A d \in { LocalDate(tasks[i], u) : u \in TriggerTicks[cfg] } :
              StoppedBefore(i, d) => ~(fired[i].date = d /\ fired[i].count > 0)

(***************************************************************************)
(* C14: the ticker does not miss a trigger minute.                         *)
(***************************************************************************)
MinuteOf(t) == t - (t % TicksPerMinute)

\* The trigger minutes of task i, on days the task is eligible, that the
\* scheduler has run through since the start of the stretch.
ElapsedMinutes(i) ==
    { MinuteOf(u) : u \in { v \in TriggerTicks[cfg] :
                              /\ TriggerMinute(tasks[i], v)
                              /\ MonthlyGate(tasks[i], v)
                              /\ MinuteOf(v) >= TickStart(cfg)
                              /\ MinuteOf(v) + TicksPerMinute <= now } }

\* C14: while the scheduler runs uncancelled, every task has been invoked
\* during the latest of its trigger minutes that have gone by (or since, in
\* a trigger minute still in progress).
C14_NoTriggerMinuteMissed ==
    (~cancelled /\ schedPc \in {"idle", "loop", "task"}) =>
        \A i \in DOMAIN tasks :
            \A m \in ElapsedMinutes(i) :
                (\A m2 \in ElapsedMinutes(i) : m2 <= m) =>
                    tasks[i].lastRun >= m

(***************************************************************************)
(* C15: an action is invoked only on a tick inside the trigger minute;     *)
(* there is no catch-up.                                                   *)
(***************************************************************************)
\* The wall clock of the task's zone reads a time of day after the trigger
\* minute.
PastTrigger(task, t) ==
    Hour(In(t, task.location)) * 60 + Minute(In(t, task.location))
        > task.hour * 60 + task.minute

\* C15: whenever an action is being executed, the tick that called it read
\* the task's trigger hour and minute on the wall clock of the task's zone;
\* lastRun changes only to such a tick; and on a tick after the trigger
\* minute of the day the task is not invoked.
C15_OnlyInTriggerMinute ==
    /\ [](\A i \in running : TriggerMinute(tasks[i], now))
    /\ [](\A i \in DOMAIN tasks : PastTrigger(tasks[i], now) => i \notin running)
    /\ [][\A i \in DOMAIN tasks :
            (i \in DOMAIN tasks' /\ tasks'[i].lastRun # tasks[i].lastRun) =>
                (tasks'[i].lastRun = now' /\ TriggerMinute(tasks'[i], now'))]_vars

\* A checkTasks after the trigger minute of a day on which the task was not
\* invoked has come and gone without invoking anything, while another tick
\* did invoke the task on another day.
C15_Witness ==
    /\ schedPc = "idle"
    /\ now > StartTime
    /\ tickLog = << >>
    /\ \E i \in DOMAIN tasks :
          /\ PastTrigger(tasks[i], now)
          /\ fired[i].count > 0
          /\ fired[i].date # LocalDate(tasks[i], now)

(***************************************************************************)
(* C16: the reader sends, in input order, the events of exactly the        *)
(* records that decode, carry a monitored identifier and have a message    *)
(* that parses; any other record is passed over.                           *)
(***************************************************************************)
Monitored == {"sshd", "sshd-session"}

EventOf(record) ==
    ParseMessage(record.Message, parseTimestamp(record.RealtimeTimestamp))

Accepted(record) ==
    /\ record.json
    /\ record.SyslogIdentifier \in Monitored
    /\ EventOf(record) # Nil

C17_SpawnFailureAbortsRun ==
    /\ [][(mainPc = "start" /\ mainPc' # "start" /\ procState' = "none") =>
            (mainPc' = "returned" /\ runErr' = "spawn")]_vars
    /\ [](runErr = "spawn" =>
            /\ mainPc = "returned"
            /\ procState = "none" /\ readerPc = "none"
            /\ tasks = << >> /\ schedPc = "none"
            /\ sent = << >> /\ processed = << >> /\ teardown = << >>)

C17_Witness == runErr = "spawn" /\ mainPc = "returned" /\ cancelled

(***************************************************************************)
(* C18: a registration with an unknown zone or with a string that is no    *)
(* time of day fails and leaves the registry alone; in Run it ends the     *)
(* startup.                                                                *)
(***************************************************************************)
TwoDigits(s, k) == k + 1 <= Len(s) /\ IsDigit(s[k]) /\ IsDigit(s[k + 1])

Number(s, k) == DigitVal(s[k]) * 10 + DigitVal(s[k + 1])

\* A time of day of the layout "15:04": an hour below 24 of two digits or of
\* one, a colon, a minute below 60 of two digits.
ValidTimeOfDay(s) ==
    \/ /\ Len(s) = 5 /\ TwoDigits(s, 1) /\ s[3] = ":" /\ TwoDigits(s, 4)
       /\ Number(s, 1) < 24 /\ Number(s, 4) < 60
    \/ /\ Len(s) = 4 /\ IsDigit(s[1]) /\ s[2] = ":" /\ TwoDigits(s, 3)
       /\ Number(s, 3) < 60

TimeStrings ==
    { T0400, T0030, T2330, T2400,
      << "4", ":", "0", "0" >>, << "0", "4", ":", "6", "0" >>,
      << "0", "4", "0", "0" >>, << "0", "4", ":", "0" >>,
      << "0", "4", ":", "0", "0", "x" >>, << "a", "b", ":", "c", "d" >>,
      << "0", "4", "-", "0", "0" >>, << >> }

ZoneInputs == ZoneNames \cup {"Mars/Phobos"}

InvalidRegistration(s, z) == ~ValidTimeOfDay(s) \/ z \notin ZoneNames

\* C18: on any registry the daemon builds, AddDailyTask and AddMonthlyTask
\* with an unknown zone or with a string that is no time of day return an
\* error and the registry as it was; a Run whose daily report is configured
\* so registers nothing, returns the error, and starts neither the scheduler
\* loop nor the main loop.
C18_InvalidRegistrationRejected ==
    /\ [](\A s \in TimeStrings, z \in ZoneInputs :
            InvalidRegistration(s, z) =>
                /\ AddDailyTask(tasks, "task", s, z, "action")
                      = [err |-> TRUE, tasks |-> tasks]
                /\ AddMonthlyTask(tasks, "task", s, z, "action")
                      = [err |-> TRUE, tasks |-> tasks])
    /\ []((/\ cfg.DailyReportEnabled
           /\ InvalidRegistration(cfg.DailyReportTime, cfg.DailyReportTimezone)) =>
            /\ mainPc \in {"start", "addReport", "returned"}
            /\ tasks = << >>
            /\ schedPc = "none")
    /\ [](runErr = "register" =>
            (mainPc = "returned" /\ schedPc = "none" /\ processed = << >>))
    /\ [][(runErr' = "register" /\ runErr # "register") =>
            (tasks' = tasks /\ mainPc = "addReport")]_vars

C18_Witness ==
    /\ runErr = "register"
    /\ mainPc = "returned"
    /\ procState = "running"
    /\ cfg.DailyReportTimezone = "Mars/Phobos"

(***************************************************************************)
(* C19: what a task ran today does not outlive the process.                *)
(***************************************************************************)
\* checkTasks stands at a task that has not run in this process, in the
\* task's trigger minute (and, for a monthly task, on a last day).
FreshInTriggerMinute ==
    /\ schedPc = "loop"
    /\ schedI <= Len(tasks)
    /\ tasks[schedI].lastRun = ZeroTime
    /\ TriggerMinute(tasks[schedI], now)
    /\ MonthlyGate(tasks[schedI], now)

\* C19: every task enters the registry with the zero lastRun, so the registry
\* of a new process holds nothing of the invocations of the process before;
\* and a tick of the new process inside the trigger minute of a task that
\* has not run in this process invokes the task, whatever was invoked on that
\* local day before.
C19_RanTodayLostOnRestart ==
    /\ [][\A i \in DOMAIN tasks' :
            i \notin DOMAIN tasks => tasks'[i].lastRun = ZeroTime]_vars
    /\ [][(mainPc' = "start" /\ mainPc # "start") => tasks' = << >>]_vars
    /\ [][FreshInTriggerMinute => schedI \in running']_vars

\* A task is being invoked for the second time on one local day, by a process
\* that had not run it.
C19_Witness ==
    \E i \in running :
        /\ tasks[i].lastRun = ZeroTime
        /\ fired[i].date = LocalDate(tasks[i], now)
        /\ fired[i].count = 2

(***************************************************************************)
(* C20: the names in the registry are pairwise distinct.                   *)
(***************************************************************************)
\* C20: no two tasks of the registry have the same name.
C20_NamesDistinct ==
    \A i, j \in DOMAIN tasks : tasks[i].name = tasks[j].name => i = j

(***************************************************************************)
(* C21: a tick changes a task's lastRun only by invoking its action, and   *)
(* changes nothing else of a task.                                         *)
(***************************************************************************)
\* The action of task i was invoked on the local day of the instant t.
RanToday(i, t) ==
    fired[i].count > 0 /\ fired[i].date = LocalDate(tasks[i], t)

\* Task i is not due at the instant t: the hour or the minute differs, the
\* task already ran today, or it is monthly and the day is not the last of
\* its month.
NotDue(i, t) ==
    \/ ~TriggerMinute(tasks[i], t)
    \/ RanToday(i, t)
    \/ /\ tasks[i].taskType = taskTypeMonthly
       /\ ~IsFinalDay(In(t, tasks[i].location))

\* A task without its lastRun.
Fixed(task) == [task EXCEPT !.lastRun = ZeroTime]

\* C21: lastRun changes only at the return of the task's action, to the
\* instant of the tick that invoked it; the iteration of checkTasks on a task
\* that is not due invokes nothing and changes no lastRun; and no step of
\* the scheduler changes the name, the trigger, the zone or the kind of a
\* registered task.
C21_LastRunOnlyByInvocation ==
    /\ [][\A i \in DOMAIN tasks :
            (i \in DOMAIN tasks' /\ tasks'[i].lastRun # tasks[i].lastRun) =>
                (i \in running /\ i \notin running' /\ tasks'[i].lastRun = now)]_vars
    /\ [][(schedPc = "loop" /\ schedI <= Len(tasks) /\ NotDue(schedI, now)) =>
            (running' = running /\ tasks' = tasks /\ fired' = fired)]_vars
    /\ [][\A i \in DOMAIN tasks :
            i \in DOMAIN tasks' /\ Fixed(tasks'[i]) = Fixed(tasks[i])]_vars

(***************************************************************************)
(* C22: processEvent makes each call at most once, and a failure is not    *)
(* re-attempted and does not stop the main loop.                           *)
(***************************************************************************)
CallsNamed(name) == { k \in DOMAIN procCalls : procCalls[k].call = name }

LastCall == procCalls[Len(procCalls)]

\* C22: every event is received once; for the event received last there is at
\* most one InsertEvent and at most one SendLoginAlert; processEvent leaves
\* its insert and its alert by exactly one call, and after a call that failed
\* it is back at the select of the main loop, where a waiting event can be
\* received.
C22_NoRetryLoopGoesOn ==
    /\ [](\A k, l \in DOMAIN processed : processed[k] = processed[l] => k = l)
    /\ [](/\ Cardinality(CallsNamed("InsertEvent")) <= 1
          /\ Cardinality(CallsNamed("SendLoginAlert")) <= 1
          /\ \A k \in DOMAIN procCalls : procCalls[k].event = cur)
    /\ [][(mainPc \in {"insert", "alert"} /\ procCalls' # procCalls) =>
            /\ procCalls' = Append(procCalls, LastCall')
            /\ LastCall'.call = (IF mainPc = "insert" THEN "InsertEvent"
                                 ELSE "SendLoginAlert")
            /\ LastCall'.err => mainPc' = "select"]_vars
    /\ [][(mainPc \in {"lookup", "insert", "alert"}) =>
            mainPc' \in {"lookup", "insert", "alert", "select"}]_vars
    /\ []((mainPc = "select" /\ events # << >>) => ENABLED MainEvent)

\* The insert of an event has failed, nothing else was called for it, and the
\* main loop stands at its select with the next event waiting.
C22_Witness ==
    /\ mainPc = "select"
    /\ Len(procCalls) = 1
    /\ LastCall.call = "InsertEvent" /\ LastCall.err
    /\ LastCall.event = processed[Len(processed)]
    /\ LastCall.event.EventType = EventSuccess
    /\ events # << >>

(***************************************************************************)
(* C23: an event is stored whatever the lookup gave.                       *)
(***************************************************************************)
\* No resolver is loaded, or the lookup of the event in progress returned an
\* error or no location.
NoLocation ==
    \/ geoip = "nil"
    \/ \E k \in CallsNamed("Lookup") : procCalls[k].err \/ procCalls[k].place = ""

\* C23: processEvent always goes from its lookup to its insert, without a
\* lookup when no resolver is loaded; it leaves the insert by an InsertEvent
\* of the event, and when there is no location the country and city of that
\* call are empty.
C23_StoredWithoutLocation ==
    /\ [][(mainPc = "lookup" /\ mainPc' # "lookup") => mainPc' = "insert"]_vars
    /\ [](geoip = "nil" => CallsNamed("Lookup") = {})
    /\ [][(mainPc = "insert" /\ mainPc' # "insert") =>
            /\ procCalls' = Append(procCalls, LastCall')
            /\ LastCall'.call = "InsertEvent"
            /\ LastCall'.event = cur
            /\ NoLocation => LastCall'.place = ""]_vars

\* The lookup of an event returned an error and the event was stored with an
\* empty country and city.
C23_Witness ==
    /\ Len(procCalls) = 2
    /\ procCalls[1].call = "Lookup" /\ procCalls[1].err
    /\ procCalls[2].call = "InsertEvent" /\ ~procCalls[2].err
    /\ procCalls[2].place = "" /\ procCalls[2].event = cur

(***************************************************************************)
(* C24: a login alert for every success event, and for no other.           *)
(***************************************************************************)
\* C24: when processEvent returns from a success event, it has called
\* SendLoginAlert once for it; and for a failure event SendLoginAlert is
\* never called.
C24_AlertForEverySuccess ==
    /\ [][(mainPc \in {"lookup", "insert", "alert"} /\ mainPc' = "select") =>
            (cur.EventType = EventSuccess =>
                \E k \in DOMAIN procCalls' :
                    /\ procCalls'[k].call = "SendLoginAlert"
                    /\ procCalls'[k].event = cur
                    /\ \A l \in DOMAIN procCalls' :
                          procCalls'[l].call = "SendLoginAlert" => l = k)]_vars
    /\ [](\A k \in CallsNamed("SendLoginAlert") :
            procCalls[k].event.EventType = EventSuccess)

(***************************************************************************)
(* C25: Stop kills and returns; it neither waits nor closes the channel.   *)
(***************************************************************************)
StopReturned ==
    /\ Len(teardown') = Len(teardown) + 1
    /\ teardown'[Len(teardown')].call = "journal.Stop"

\* C25: a call of Stop leaves a running subprocess killed and not yet
\* exited, leaves the channel, its content and the reader goroutine as they
\* were, and on a reader that was never started returns nil and leaves the
\* subprocess unstarted.
C25_StopKillsAndReturns ==
    [][StopReturned =>
        /\ procState = "running" => procState' = "killed"
        /\ procState # "running" => procState' = procState
        /\ chanClosed' = chanClosed /\ events' = events
        /\ readerPc' = readerPc /\ pending' = pending /\ sent' = sent
        /\ procState = "none" => ~teardown'[Len(teardown')].err]_vars

\* Stop was called on a reader that was never started, and again after the
\* start: the subprocess is killed, the reader goroutine is still there and
\* the channel is open.
C25_Witness ==
    /\ Len(teardown) = 2
    /\ ~teardown[1].err
    /\ procState = "killed"
    /\ readerPc \in {"scan", "send"}
    /\ ~chanClosed

(***************************************************************************)
(* The parser package called directly, as its tests call it: sequences of  *)
(* calls of ParseMessage and ParseLine on messages and lines of bounded    *)
(* sets.                                                                   *)
(***************************************************************************)
MaxCalls == 3       \* the calls made of the parser in one run

\* Port words: in the range of int, two ports and the largest int; out of it,
\* the number after the largest int and a longer run of digits.
Ports ==
    [ inRange |-> { << "2", "2" >>, << "2", "2", "2", "2", "2" >>,
                    << "2", "1", "4", "7", "4", "8", "3", "6", "4", "7" >> },
      outOfRange |-> { << "2", "1", "4", "7", "4", "8", "3", "6", "4", "8" >>,
                       << "9", "9", "9", "9", "9", "9", "9", "9", "9", "9", "9",
                          "9" >> } ]

\* 'Accepted <method> for <user> from <ip> port <port> ...'
AcceptedMessage(method, user, ip, port, tail) ==
    << W.Accepted, method, W.for, user, W.from, ip, W.port, port >> \o tail

\* 'Failed <method> for [invalid user ]<user> from <ip> port <port> ...'
FailedMessage(method, marker, user, ip, port, tail) ==
    << W.Failed, method, W.for >> \o (IF marker THEN << W.invalid, W.user >> ELSE << >>)
        \o << user, W.from, ip, W.port, port >> \o tail

\* The messages of the two shapes for users bob and invalid, ending after the
\* port or going on.
AcceptedMessages(methods, ports) ==
    { AcceptedMessage(method, user, W.addrA, port, tail) :
        method \in methods, user \in {W.bob, W.invalid}, port \in ports,
        tail \in {<< >>, << W.ssh2 >>} }

FailedMessages(methods, markers, ports) ==
    { FailedMessage(method, marker, user, W.addrB, port, tail) :
        method \in methods, marker \in markers, user \in {W.bob, W.invalid},
        port \in ports, tail \in {<< >>, << W.ssh2 >>} }

\* Messages of neither shape: the empty message, text, a session message, a
\* closed connection, a shape cut short, a marker with no user, a port that
\* is no number, and the shapes with another method.
OtherMessages ==
    { << >>, << W.random, W.garbage >>, MsgSession,
      << W.Connection, W.closed, W.by, W.addrA, W.port, << "2", "2" >> >>,
      << W.Accepted, W.password, W.for, W.bob, W.from, W.addrA, W.port >>,
      << W.Failed, W.password, W.for, W.invalid, W.user, W.from, W.addrB, W.port,
         << "9" >> >>,
      << W.Accepted, W.password, W.for, W.bob, W.from, W.addrA, W.port, W.none >> }
        \cup AcceptedMessages({W.none, W.keyboard}, {<< "2", "2" >>})
        \cup FailedMessages({W.none, W.keyboard}, BOOLEAN, {<< "2", "2" >>})

LineMessages ==
    { AcceptedMessage(W.publickey, W.bob, W.addrA, << "2", "2" >>, << W.ssh2 >>),
      FailedMessage(W.password, TRUE, W.admin, W.addrB, << "2", "2" >>, << W.ssh2 >>),
      FailedMessage(W.password, FALSE, W.root, W.addrB,
                    << "2", "1", "4", "7", "4", "8", "3", "6", "4", "8" >>, << >>),
      AcceptedMessage(W.keyboard, W.bob, W.addrA, << "2", "2" >>, << W.ssh2 >>),
      MsgSession, << >> }

Messages ==
    AcceptedMessages(Methods, Ports.inRange \cup Ports.outOfRange)
        \cup FailedMessages(Methods, BOOLEAN, Ports.inRange \cup Ports.outOfRange)
        \cup OtherMessages \cup LineMessages

\* The heads of syslog lines of sshd on days that exist.
SshdHeads ==
    { << month, day, W.clock, W.host, W.sshdTag >> :
        month \in { << "J", "a", "n" >>, << "F", "e", "b" >> },
        day \in { << "5" >>, << "2", "9" >> } }

\* Heads with a month that is none, a day and an hour that do not exist, and
\* of another program.
BadHeads ==
    { << << "X", "y", "z" >>, << "2", "0" >>, W.clock, W.host, W.sshdTag >>,
      << << "F", "e", "b" >>, << "3", "0" >>, W.clock, W.host, W.sshdTag >>,
      << << "J", "a", "n" >>, << "2", "0" >>,
         << "2", "4", ":", "3", "0", ":", "0", "0" >>, W.host, W.sshdTag >>,
      << << "J", "a", "n" >>, << "2", "0" >>, W.clock, W.host, W.systemdTag >> }

\* The white space between the month and the day: one space, two spaces, a
\* tabulator.
Gaps == { << " " >>, << " ", " " >>, << "\t" >> }

Lines ==
    { [gap |-> gap, words |-> head \o message] :
        gap \in Gaps, head \in SshdHeads, message \in LineMessages }
        \cup { [gap |-> << " " >>, words |-> head \o message] :
                  head \in BadHeads, message \in LineMessages }
        \cup { [gap |-> << " " >>, words |-> words] :
                  words \in { << >>, << W.random, W.garbage >> } }

\* A call of ParseMessage, recorded with what it returned: the first call of
\* a run on any message, a later call on one of two messages, with one of
\* two time stamps.
ParseMessageCall ==
    /\ Len(parseCalls) < MaxCalls
    /\ \E message \in (IF parseCalls = << >> THEN Messages
                       ELSE { MsgSession,
                              FailedMessage(W.password, TRUE, W.admin, W.addrB,
                                            << "2", "2" >>, << W.ssh2 >>) }),
          timestamp \in { parseTimestamp(ToString(k)) : k \in 1..2 } :
          parseCalls' = Append(parseCalls,
                               [fn |-> "ParseMessage", input |-> message,
                                arg |-> timestamp,
                                result |-> ParseMessage(message, timestamp)])
    /\ UNCHANGED << cfg, ToolVars, mainPc, runErr, cancelled, sigPending, geoip, storage,
                    teardown >>
    /\ UNCHANGED << PipeVars, SchedVars, EventVars >>

\* A call of ParseLine, recorded with what it returned: the first call of a
\* run on any line, a later call on one line of sshd of February 29, with
\* one of two years.
ParseLineCall ==
    /\ Len(parseCalls) < MaxCalls
    /\ \E line \in (IF parseCalls = << >> THEN Lines
                    ELSE { [gap |-> << " " >>,
                            words |-> << << "F", "e", "b" >>, << "2", "9" >>, W.clock,
                                         W.host, W.sshdTag >>
                                      \o FailedMessage(W.password, TRUE, W.admin,
                                                       W.addrB, << "2", "2" >>,
                                                       << W.ssh2 >>)] }),
          year \in {2023, 2024} :
          parseCalls' = Append(parseCalls,
                               [fn |-> "ParseLine", input |-> line, arg |-> year,
                                result |-> ParseLine(line, year)])
    /\ UNCHANGED << cfg, ToolVars, mainPc, runErr, cancelled, sigPending, geoip, storage,
                    teardown >>
    /\ UNCHANGED << PipeVars, SchedVars, EventVars >>

\* The daemon is not running: its configuration is of no account.
ParserInit == InitWith({CHOOSE c \in RestartConfigs : TRUE}, {TRUE})

ParserNext == ParseMessageCall \/ ParseLineCall

ParserSpec == ParserInit /\ [][ParserNext]_vars

(***************************************************************************)
(* Claims about the parser.                                                *)
(***************************************************************************)
\* The number a port word of Ports.inRange writes.
PortValue(w) ==
    CASE w = << "2", "2" >> -> 22
      [] w = << "2", "2", "2", "2", "2" >> -> 22222
      [] w = << "2", "1", "4", "7", "4", "8", "3", "6", "4", "7" >> -> 2147483647

MessageCalls == { k \in DOMAIN parseCalls : parseCalls[k].fn = "ParseMessage" }
LineCalls == { k \in DOMAIN parseCalls : parseCalls[k].fn = "ParseLine" }

\* C26: ParseMessage on an 'Accepted <method> for <user> from <ip> port <port>'
\* message with method password or publickey returns a Success Event with
\* exactly that method, user, address and port, the time stamp it was given
\* and the invalid user flag false; what the success shape returns is what
\* ParseMessage returns, the failure shape being tried only after it.
C26_AcceptedGivesSuccessEvent ==
    \A k \in MessageCalls :
        /\ parseCalls[k].input \in AcceptedMessages(Methods, Ports.inRange) =>
              parseCalls[k].result =
                  [Timestamp |-> parseCalls[k].arg, EventType |-> EventSuccess,
                   Username |-> parseCalls[k].input[4], IP |-> parseCalls[k].input[6],
                   Port |-> PortValue(parseCalls[k].input[8]),
                   Method |-> parseCalls[k].input[2], InvalidUser |-> FALSE]
        /\ parseMessageSuccess(parseCalls[k].input, parseCalls[k].arg) # Nil =>
              parseCalls[k].result =
                  parseMessageSuccess(parseCalls[k].input, parseCalls[k].arg)

\* ParseMessage has returned the Event of an accepted password of a user
\* named "invalid", from port 22222.
C26_Witness ==
    /\ parseCalls # << >>
    /\ parseCalls[1].fn = "ParseMessage"
    /\ parseCalls[1].input =
          AcceptedMessage(W.password, W.invalid, W.addrA, << "2", "2", "2", "2", "2" >>,
                          << W.ssh2 >>)
    /\ parseCalls[1].result # Nil
    /\ parseCalls[1].result.EventType = EventSuccess
    /\ parseCalls[1].result.Username = W.invalid
    /\ parseCalls[1].result.Port = 22222

\* The 'Failed ...' messages with the "invalid user" marker, or without it.
FailedWith(marker) ==
    FailedMessages(Methods, {marker}, Ports.inRange \cup Ports.outOfRange)

\* The place of the user's word in a 'Failed ...' message.
UserAt(marker) == IF marker THEN 6 ELSE 4

\* C27: ParseMessage on a 'Failed <method> for [invalid user ]<user> from <ip>
\* port <port>' message with method password or publickey returns a Failure
\* Event whose invalid user flag is true exactly when the message has the
\* "invalid user" marker, and whose user is the word after the marker, not
\* the marker's word "invalid".
C27_FailedGivesFailureEvent ==
    \A k \in MessageCalls : \A marker \in BOOLEAN :
        parseCalls[k].input \in FailedWith(marker) =>
            /\ parseCalls[k].result # Nil
            /\ parseCalls[k].result.EventType = EventFailure
            /\ parseCalls[k].result.InvalidUser = marker
            /\ parseCalls[k].result.Username = parseCalls[k].input[UserAt(marker)]
            /\ parseCalls[k].result.Method = parseCalls[k].input[2]
            /\ parseCalls[k].result.IP = parseCalls[k].input[UserAt(marker) + 2]
            /\ parseCalls[k].result.Timestamp = parseCalls[k].arg

\* ParseMessage has returned the Event of a failed password of the invalid
\* user bob.
C27_Witness ==
    /\ parseCalls # << >>
    /\ parseCalls[1].fn = "ParseMessage"
    /\ parseCalls[1].input =
          FailedMessage(W.password, TRUE, W.bob, W.addrB, << "2", "2" >>, << W.ssh2 >>)
    /\ parseCalls[1].result # Nil
    /\ parseCalls[1].result.EventType = EventFailure
    /\ parseCalls[1].result.InvalidUser
    /\ parseCalls[1].result.Username = W.bob

\* The lines of neither shape: no words, text, another program's line, and
\* lines of sshd whose message is of neither shape.
OtherLines ==
    { line \in Lines :
        \/ Len(line.words) < 5
        \/ line.words[5] = W.systemdTag
        \/ SubSeq(line.words, 6, Len(line.words)) \in OtherMessages }

\* C28: ParseMessage and ParseLine return no Event, and nothing else, for a
\* message of neither shape: the empty string, arbitrary text, session and
\* closed connection messages, a shape cut short, and 'Accepted' and 'Failed'
\* messages whose method is neither password nor publickey.
C28_NoMatchNoEvent ==
    /\ \A k \in MessageCalls :
          parseCalls[k].input \in OtherMessages => parseCalls[k].result = Nil
    /\ \A k \in LineCalls :
          parseCalls[k].input \in OtherLines => parseCalls[k].result = Nil

\* ParseMessage has returned nil for an accepted keyboard-interactive login.
C28_Witness ==
    /\ parseCalls # << >>
    /\ parseCalls[1].fn = "ParseMessage"
    /\ parseCalls[1].input =
          AcceptedMessage(W.keyboard, W.bob, W.addrA, << "2", "2" >>, << W.ssh2 >>)
    /\ parseCalls[1].result = Nil

\* The messages of a shape whose port digits are past the range of int.
OutOfRangeMessages ==
    AcceptedMessages(Methods, Ports.outOfRange)
        \cup FailedMessages(Methods, BOOLEAN, Ports.outOfRange)

\* C29: when a message matches a shape and its port digits do not convert to
\* an int, being out of its range, ParseMessage still returns the Event, with
\* port 0 and the type, method and time stamp as parsed.
C29_UnconvertiblePortIsZero ==
    \A k \in MessageCalls :
        parseCalls[k].input \in OutOfRangeMessages =>
            /\ parseCalls[k].result # Nil
            /\ parseCalls[k].result.Port = 0
            /\ parseCalls[k].result.Method = parseCalls[k].input[2]
            /\ parseCalls[k].result.Timestamp = parseCalls[k].arg
            /\ parseCalls[k].result.EventType =
                  (IF parseCalls[k].input[1] = W.Accepted THEN EventSuccess
                                                         ELSE EventFailure)

\* What the function of a recorded call returns for the call's arguments.
Returns(call) ==
    IF call.fn = "ParseMessage" THEN ParseMessage(call.input, call.arg)
    ELSE ParseLine(call.input, call.arg)

StampedLines ==
    { [gap |-> gap, words |-> head \o message] :
        gap \in { << " " >>, << " ", " " >> }, head \in SshdHeads,
        message \in LineMessages \ OtherMessages }

\* The month and the day a head of SshdHeads writes.
WrittenDate(words) ==
    [month |-> IF words[1] = << "J", "a", "n" >> THEN 1 ELSE 2,
     day |-> IF words[2] = << "5" >> THEN 5 ELSE 29]

\* C31: the time stamp of an Event comes only from the time stamp source:
\* ParseMessage returns an Event with the instant it was given, and ParseLine
\* an Event with the year it was given and the month, day and time of the
\* line's head, in the local zone; a line with one space before the day and
\* the line with two give the same Event.
C31_TimestampFromSource ==
    /\ \A k \in MessageCalls :
          parseCalls[k].result # Nil =>
              parseCalls[k].result.Timestamp = parseCalls[k].arg
    /\ \A k \in LineCalls :
          parseCalls[k].input \in StampedLines =>
              /\ parseCalls[k].result # Nil
              /\ parseCalls[k].result.Timestamp =
                    [date |-> [year |-> parseCalls[k].arg,
                               month |-> WrittenDate(parseCalls[k].input.words).month,
                               day |-> WrittenDate(parseCalls[k].input.words).day],
                     hour |-> 14, minute |-> 30, second |-> 0, loc |-> "Local"]
              /\ parseCalls[k].result =
                    ParseLine([parseCalls[k].input EXCEPT !.gap = << " " >>],
                              parseCalls[k].arg)

(***************************************************************************)
(* The actions of the scheduled tasks, with the main loop and the shutdown *)
(* of Daemon.Run going on beside them: a journal of one record, and the    *)
(* ticks of the last day of January at 03:00 and at 04:00 UTC.             *)
(***************************************************************************)
TaskTicks == { Instant(2021, 1, 31, 3, 0, 0), Instant(2021, 1, 31, 4, 0, 0) }

\* checkTasks, once the action it called has returned err: the error is
\* logged, the last run is set and the loop goes on.
TaskReturn(err) ==
    /\ tasks' = [tasks EXCEPT ![schedI].lastRun = now]
    /\ fired' = [fired EXCEPT ![schedI].failed = @ \/ err]
    /\ running' = running \ {schedI}
    /\ schedI' = schedI + 1
    /\ schedPc' = "loop"
    /\ UNCHANGED << cfg, parseCalls, ToolVars, mainPc, runErr, cancelled, sigPending, teardown,
                    now, tickLog >>
    /\ UNCHANGED << PipeVars, EventVars >>

\* Daemon.sendDailyReport: GenerateDailyReport queries the storage handle,
\* SendDailyReport sends the text, and the error of either is returned.
TaskDailyReport ==
    /\ schedPc = "task"
    /\ tasks[schedI].task = "sendDailyReport"
    /\ \E err \in BOOLEAN : TaskReturn(err)
    /\ UNCHANGED << geoip, storage >>

\* Daemon.runCleanup: d.storage.Cleanup, whose error is returned.
TaskCleanup ==
    /\ schedPc = "task"
    /\ tasks[schedI].task = "runCleanup"
    /\ \E err \in BOOLEAN : TaskReturn(err)
    /\ UNCHANGED << geoip, storage >>

\* Daemon.checkGeoIPUpdate up to the download: NeedsUpdate fails or finds the
\* database current and nil is returned, Update fails and its error is
\* returned, or the new database is on disk.
GeoOutcomes == {"checkFailed", "current", "downloadFailed", "downloaded"}

TaskGeoUpdate ==
    /\ schedPc = "task"
    /\ tasks[schedI].task = "checkGeoIPUpdate"
    /\ \E outcome \in GeoOutcomes :
          IF outcome = "downloaded"
          THEN /\ schedPc' = "close"
               /\ UNCHANGED << cfg, parseCalls, ToolVars, mainPc, runErr, cancelled, sigPending,
                               teardown, tasks, schedI, now, running, fired, tickLog >>
               /\ UNCHANGED << PipeVars, EventVars >>
          ELSE TaskReturn(outcome = "downloadFailed")
    /\ UNCHANGED << geoip, storage >>

\* Daemon.checkGeoIPUpdate: d.geoip.Close(), when a resolver is loaded.
TaskGeoClose ==
    /\ schedPc = "close"
    /\ geoip' = IF geoip # "nil" THEN "closed" ELSE geoip
    /\ schedPc' = "open"
    /\ UNCHANGED << cfg, parseCalls, ToolVars, mainPc, runErr, cancelled, sigPending, storage,
                    teardown, tasks, schedI, now, running, fired, tickLog >>
    /\ UNCHANGED << PipeVars, EventVars >>

\* Daemon.checkGeoIPUpdate: geoip.NewResolver; its error is returned with
\* d.geoip as it was, and the resolver it opened is stored in d.geoip.
TaskGeoOpen ==
    /\ schedPc = "open"
    /\ \E ok \in BOOLEAN :
          /\ geoip' = IF ok THEN "open" ELSE geoip
          /\ TaskReturn(~ok)
    /\ UNCHANGED storage

TaskInit ==
    InitWith({ c \in RestartConfigs : c.GeoIPEnabled /\ c.DailyReportEnabled }, BOOLEAN)

TaskStep ==
    \/ TaskDailyReport
    \/ TaskCleanup
    \/ TaskGeoUpdate
    \/ TaskGeoClose
    \/ TaskGeoOpen

TaskNext ==
    \/ MainStep
    \/ (nRecords = 0 /\ ReaderScan)
    \/ ReaderEnd \/ ReaderSend \/ ReaderCtxDone
    \/ SignalArrives
    \/ ProcExit
    \/ CtxKill
    \/ (SchedTick /\ now' \in TaskTicks)
    \/ SchedCtxDone
    \/ SchedLoopEnd \/ SchedSkip \/ SchedInvoke
    \/ TaskStep

TaskSpec == TaskInit /\ [][TaskNext]_vars

(***************************************************************************)
(* C32: no action of a scheduled task calls the storage handle after the   *)
(* shutdown has closed it.                                                 *)
(***************************************************************************)
\* C32: a step in which sendDailyReport or runCleanup calls the storage
\* handle finds the handle open.
C32_NoStorageCallAfterClose ==
    [][(TaskDailyReport \/ TaskCleanup) => storage = "open"]_vars

(***************************************************************************)
(* C33: the resolver is not used for a lookup once it has been closed, and *)
(* it is not closed twice.                                                 *)
(***************************************************************************)
\* C33: processEvent looks an address up only in a resolver that is open,
\* and shutdown and the geoip-update task close only a resolver that is open.
C33_ResolverOpenWhenUsedOrClosed ==
    [][(ProcLookup \/ ShutGeoIP \/ TaskGeoClose) => geoip # "closed"]_vars

\* C33, the half about lookups.
C33_NoLookupAfterClose == [][ProcLookup => geoip # "closed"]_vars

\* C33, the half about closing twice.
C33_NotClosedTwice == [][(ShutGeoIP \/ TaskGeoClose) => geoip # "closed"]_vars

(***************************************************************************)
(* C34: when checkGeoIPUpdate has returned, d.geoip is nil or refers to an *)
(* open resolver.                                                          *)
(***************************************************************************)
\* checkGeoIPUpdate returns in this step, while the main loop is serving and
\* no shutdown has begun.
GeoUpdateReturns ==
    /\ schedPc \in {"task", "open"}
    /\ schedPc' = "loop"
    /\ tasks[schedI].task = "checkGeoIPUpdate"
    /\ mainPc \in {"select", "lookup", "insert", "alert"}

\* C34: when checkGeoIPUpdate returns, with an error or without, the
\* resolver field is nil or refers to an open resolver.
C34_ResolverAbsentOrOpenAfterUpdate ==
    [][GeoUpdateReturns => geoip' \in {"nil", "open"}]_vars

\* C34, the half that holds: when the check or the download fails, the
\* resolver is left as it was.
C34_FailedDownloadKeepsResolver ==
    [][(GeoUpdateReturns /\ schedPc = "task") => geoip' = geoip /\ geoip # "closed"]_vars

(***************************************************************************)
(* C35: the events channel is closed once, by the reader goroutine as it   *)
(* returns; nothing is sent after the close, nil is never sent, and the    *)
(* main loop receives nil only from the closed channel.                    *)
(***************************************************************************)
\* C35: the channel goes from open to closed only in a step in which the
\* reader goroutine returns, and it is closed when that goroutine has
\* returned; once it is closed the goroutine is gone and nothing more is
\* sent; every value sent is an event; the main loop takes the shutdown
\* branch of its receive only when the channel is closed and drained.
C35_ChannelClosedOnceByReader ==
    [][/\ chanClosed' # chanClosed =>
            ~chanClosed /\ readerPc # "done" /\ (ReaderEnd \/ ReaderCtxDone)
       /\ readerPc' = "done" => chanClosed'
       /\ chanClosed => readerPc' = "done" /\ sent' = sent /\ Len(events') <= Len(events)
       /\ sent' # sent => sent'[Len(sent')] # Nil /\ events' = Append(events, sent'[Len(sent')])
       /\ processed' # processed => cur' # Nil
       /\ (mainPc = "select" /\ mainPc' = "stop" /\ sigPending' = sigPending) =>
            chanClosed /\ events = << >>]_vars

\* The reader has sent events and returned, the main loop has received them
\* all and then nil from the closed channel, and has gone to the shutdown.
C35_Witness ==
    /\ chanClosed
    /\ readerPc = "done"
    /\ sent # << >>
    /\ processed = sent
    /\ mainPc = "stop"
    /\ ~cancelled

(***************************************************************************)
(* C36: once Run has returned after the reader was started, the reader     *)
(* goroutine terminates.                                                   *)
(***************************************************************************)
\* C36: when Run has returned, by the signal, by the closed channel or by the
\* error of a registration, a reader goroutine that was started eventually
\* returns.
C36_ReaderEndsAfterRun ==
    (mainPc = "returned" /\ readerPc # "none") ~> (readerPc = "done")

\* Run has returned and the reader goroutine with it, leaving at its send an
\* event the full channel had no room for.
C36_Witness ==
    /\ mainPc = "returned"
    /\ readerPc = "done"
    /\ Len(events) = ChanCap
    /\ Len(parsed) > Len(sent)

(***************************************************************************)
(* C37: Run registers daily-report, retention-cleanup and geoip-update in  *)
(* this order, each under its condition, and the registry stays as it is   *)
(* once the scheduler's tick loop has been started.                        *)
(***************************************************************************)
\* What the registry holds of a task besides its last run.
Entries(reg) ==
    [i \in DOMAIN reg |->
        [name |-> reg[i].name, taskType |-> reg[i].taskType, hour |-> reg[i].hour,
         minute |-> reg[i].minute, location |-> reg[i].location]]

\* The registry the configuration c calls for.
ExpectedEntries(c) ==
    (IF c.DailyReportEnabled
     THEN << [name |-> "daily-report", taskType |-> "daily",
              hour |-> Number(c.DailyReportTime, 1),
              minute |-> Number(c.DailyReportTime, 4),
              location |-> c.DailyReportTimezone] >>
     ELSE << >>)
    \o << [name |-> "retention-cleanup", taskType |-> "daily", hour |-> 3,
           minute |-> 0, location |-> "UTC"] >>
    \o (IF c.GeoIPEnabled
        THEN << [name |-> "geoip-update", taskType |-> "monthly", hour |-> 4,
                 minute |-> 0, location |-> "UTC"] >>
        ELSE << >>)

\* C37: the registry is at every moment a prefix of the tasks the
\* configuration calls for, in their order, and from the start of the tick
\* loop on it holds exactly these tasks.
C37_RegistryFixedBeforeStart ==
    /\ IsPrefix(Entries(tasks), ExpectedEntries(cfg))
    /\ schedPc # "none" => Entries(tasks) = ExpectedEntries(cfg)

\* The tick loop runs on the three tasks of a report at 00:30 in Amman and
\* has called the action of the last.
C37_Witness ==
    /\ schedPc = "task"
    /\ schedI = 3
    /\ Len(tasks) = 3
    /\ cfg.DailyReportTimezone = "Asia/Amman"
    /\ \E i \in DOMAIN tasks : tasks[i].lastRun # ZeroTime

(***************************************************************************)
(* The table ssh_events and the daily report (internal/storage,            *)
(* internal/report), under any caller of InsertEvent and of                *)
(* GenerateDailyReport.  The instants are compared as instants, and the    *)
(* limit of ten of the top lists lies above the rows of the model.         *)
(***************************************************************************)
MaxRows == 3    \* the rows of the table

\* The rows with event_type = kind and timestamp >= since.
RowsSince(table, kind, since) ==
    { k \in DOMAIN table : table[k].EventType = kind /\ table[k].Timestamp >= since }

\* Storage.GetFailedStats
GetFailedStats(table, since) ==
    [TotalAttempts |-> Cardinality(RowsSince(table, EventFailure, since)),
     UniqueIPs |-> Cardinality({ table[k].IP : k \in RowsSince(table, EventFailure, since) }),
     UniqueUsernames |->
         Cardinality({ table[k].Username : k \in RowsSince(table, EventFailure, since) })]

\* Storage.GetTopUsernames: the user names of the failures with their counts.
GetTopUsernames(table, since) ==
    { [Username |-> table[k].Username,
       Count |-> Cardinality({ j \in RowsSince(table, EventFailure, since) :
                                 table[j].Username = table[k].Username })] :
        k \in RowsSince(table, EventFailure, since) }

\* Storage.GetTopIPs: the addresses of the failures with their counts.
GetTopIPs(table, since) ==
    { [IP |-> table[k].IP,
       Count |-> Cardinality({ j \in RowsSince(table, EventFailure, since) :
                                 table[j].IP = table[k].IP })] :
        k \in RowsSince(table, EventFailure, since) }

\* Storage.GetSuccessCount
GetSuccessCount(table, since) == Cardinality(RowsSince(table, EventSuccess, since))

\* Generator.GenerateDailyReport, up to the text of formatReport: the day
\* the report is headed with and the numbers it shows.  The end of the day
\* is computed and given to no query.
startOfDay(date) == Date(Year(date), Month(date), Day(date), 0, date.loc).t

GenerateDailyReport(table, date) ==
    [date |-> Civil(date),
     stats |-> GetFailedStats(table, startOfDay(date)),
     topUsers |-> GetTopUsernames(table, startOfDay(date)),
     topIPs |-> GetTopIPs(table, startOfDay(date)),
     successCount |-> GetSuccessCount(table, startOfDay(date))]

\* The rows a caller may insert: failures and a success, stamped at the last
\* tick before the 30th of January 2021, at its first and its last tick, and
\* at the midnight that ends it.
ReportRows ==
    { [Timestamp |-> t, EventType |-> e.EventType, Username |-> e.Username, IP |-> e.IP] :
        t \in { Instant(2021, 1, 29, 23, 59, 1), Instant(2021, 1, 30, 0, 0, 0),
                Instant(2021, 1, 30, 23, 59, 1), Instant(2021, 1, 31, 0, 0, 0) },
        e \in { [EventType |-> EventFailure, Username |-> W.root, IP |-> W.addrA],
                [EventType |-> EventFailure, Username |-> W.admin, IP |-> W.addrB],
                [EventType |-> EventSuccess, Username |-> W.bob, IP |-> W.addrA] } }

\* The dates a report is asked for: sendDailyReport at 04:00 of the 31st and
\* of the 30th asks for the day before, at the same time of day.
ReportDates ==
    { AddDate(In(Instant(2021, 1, 31, 4, 0, 0), "UTC"), 0, 0, -1),
      AddDate(In(Instant(2021, 1, 30, 4, 0, 0), "UTC"), 0, 0, -1) }

\* Storage.InsertEvent
StorageInsert ==
    /\ Len(rows) < MaxRows
    /\ \E row \in ReportRows : rows' = Append(rows, row)
    /\ UNCHANGED << cfg, parseCalls, lastReport, files, upgrade, mainPc, runErr, cancelled,
                    sigPending, geoip, storage, teardown >>
    /\ UNCHANGED << PipeVars, SchedVars, EventVars >>

\* One call of GenerateDailyReport.
ReportGenerate ==
    /\ \E date \in ReportDates :
          lastReport' = [of |-> date, numbers |-> GenerateDailyReport(rows, date)]
    /\ UNCHANGED << cfg, parseCalls, rows, files, upgrade, mainPc, runErr, cancelled,
                    sigPending, geoip, storage, teardown >>
    /\ UNCHANGED << PipeVars, SchedVars, EventVars >>

ReportInit == InitWith({CHOOSE c \in RestartConfigs : TRUE}, {TRUE})

ReportNext == StorageInsert \/ ReportGenerate

ReportSpec == ReportInit /\ [][ReportNext]_vars

(***************************************************************************)
(* C38: the daily report of a date counts the events of that day, from its *)
(* midnight up to the next, and no others.                                 *)
(***************************************************************************)
\* The instant t lies in the day of date: from its local midnight up to, and
\* without, the next.
InDay(t, date) ==
    /\ Date(Year(date), Month(date), Day(date), 0, date.loc).t <= t
    /\ t < Date(Year(date), Month(date), Day(date) + 1, 0, date.loc).t

\* The rows of kind stamped in the day of date.
RowsOfDay(kind, date) ==
    { k \in DOMAIN rows : rows[k].EventType = kind /\ InDay(rows[k].Timestamp, date) }

\* C38: a report generated for a date shows the numbers of the rows stamped
\* in the day of that date: the successes, the failures, their addresses and
\* user names, and in the top lists the counts of these failures.
C38_ReportCountsTheDay ==
    [][lastReport' # lastReport =>
        /\ lastReport'.numbers.successCount =
               Cardinality(RowsOfDay(EventSuccess, lastReport'.of))
        /\ lastReport'.numbers.stats.TotalAttempts =
               Cardinality(RowsOfDay(EventFailure, lastReport'.of))
        /\ lastReport'.numbers.stats.UniqueIPs =
               Cardinality({ rows[k].IP : k \in RowsOfDay(EventFailure, lastReport'.of) })
        /\ lastReport'.numbers.stats.UniqueUsernames =
               Cardinality({ rows[k].Username : k \in RowsOfDay(EventFailure, lastReport'.of) })
        /\ \A u \in lastReport'.numbers.topUsers :
               u.Count = Cardinality({ k \in RowsOfDay(EventFailure, lastReport'.of) :
                                         rows[k].Username = u.Username })
        /\ \A a \in lastReport'.numbers.topIPs :
               a.Count = Cardinality({ k \in RowsOfDay(EventFailure, lastReport'.of) :
                                         rows[k].IP = a.IP })]_vars

(***************************************************************************)
(* The upgrade command (internal/version): one call of Checker.Upgrade in  *)
(* a process, against any answers of the release server and of the file    *)
(* system.                                                                 *)
(***************************************************************************)
\* fmt.Sprintf("oxiwatch-%s-%s", runtime.GOOS, runtime.GOARCH)
assetName == "oxiwatch-linux-amd64"

\* sha256 and hex.EncodeToString over the contents of the model: different
\* contents have different sums, written in lower case.
Sha256(content) ==
    CASE content = "release" -> "2c26b46b"
      [] content = "tampered" -> "fcde2b2e"
      [] content = "rele" -> "5d5b09f6"
      [] OTHER -> "e3b0c442"

\* fmt.Sscanf(part, "%d", &n): the number the part reads as, or 0.
Sscanf(part) ==
    IF \E n \in 0..20 : ToString(n) = part
    THEN CHOOSE n \in 0..20 : ToString(n) = part
    ELSE 0

\* The i-th number of a version split at its dots, 0 past its end.
VersionPart(v, i) == IF i <= Len(v) THEN Sscanf(v[i]) ELSE 0

\* compareVersions
compareVersions(v1, v2) ==
    LET differ == { i \in 1..(IF Len(v1) > Len(v2) THEN Len(v1) ELSE Len(v2)) :
                      VersionPart(v1, i) # VersionPart(v2, i) }
        first == CHOOSE i \in differ : \A j \in differ : i <= j
    IN  IF differ = {} THEN 0
        ELSE IF VersionPart(v1, first) > VersionPart(v2, first) THEN 1 ELSE -1

RECURSIVE checksumsOf(_, _)
\* fetchChecksums, the loop over the lines of the body: each line of two
\* fields or more sets the sum of the name in its second field.
checksumsOf(lines, sums) ==
    IF lines = << >> THEN sums
    ELSE checksumsOf(Tail(lines),
                     IF Len(Head(lines)) >= 2
                     THEN [name \in DOMAIN sums \cup {Head(lines)[2]} |->
                              IF name = Head(lines)[2] THEN Head(lines)[1] ELSE sums[name]]
                     ELSE sums)

\* fetchChecksums: the map of names to sums, or the error of the request.
fetchChecksums(answer) ==
    IF answer.err # "none" THEN [err |-> TRUE, checksums |-> << >>]
    ELSE [err |-> FALSE, checksums |-> checksumsOf(answer.body, << >>)]

\* An Upgrade that renames the temporary file whatever its sum.
Upgrade_unverified(env, fs) ==
    IF env.release.err THEN [err |-> "release", files |-> fs]
    ELSE IF /\ env.currentVersion # << "dev" >>
            /\ compareVersions(env.release.TagName, env.currentVersion) <= 0
    THEN [err |-> "latest", files |-> fs]
    ELSE IF "checksums.txt" \notin env.release.Assets
    THEN [err |-> "checksumURL", files |-> fs]
    ELSE IF fetchChecksums(env.checksums).err THEN [err |-> "checksums", files |-> fs]
    ELSE IF assetName \notin DOMAIN fetchChecksums(env.checksums).checksums
    THEN [err |-> "noChecksum", files |-> fs]
    ELSE IF assetName \notin env.release.Assets THEN [err |-> "noBinary", files |-> fs]
    ELSE IF env.download.err \in {"get", "status"}
    THEN [err |-> "download", files |-> fs]
    ELSE IF ~env.executable THEN [err |-> "executable", files |-> fs]
    ELSE IF ~env.open THEN [err |-> "create", files |-> fs]
    ELSE IF env.download.err = "copy"
    THEN [err |-> "write", files |-> [fs EXCEPT !.temp = "absent"]]
    ELSE IF ~env.rename
    THEN [err |-> "replace", files |-> [fs EXCEPT !.temp = "absent"]]
    ELSE [err |-> "none", files |-> [exe |-> env.download.body, temp |-> "absent"]]

\* Checker.Upgrade: what it returns and the files it leaves, for the answers
\* env of the servers and of the file system and the files fs it finds.
Upgrade(env, fs) ==
    IF env.release.err THEN [err |-> "release", files |-> fs]
    ELSE IF /\ env.currentVersion # << "dev" >>
            /\ compareVersions(env.release.TagName, env.currentVersion) <= 0
    THEN [err |-> "latest", files |-> fs]
    ELSE IF "checksums.txt" \notin env.release.Assets
    THEN [err |-> "checksumURL", files |-> fs]
    ELSE IF fetchChecksums(env.checksums).err THEN [err |-> "checksums", files |-> fs]
    ELSE IF assetName \notin DOMAIN fetchChecksums(env.checksums).checksums
    THEN [err |-> "noChecksum", files |-> fs]
    ELSE IF assetName \notin env.release.Assets THEN [err |-> "noBinary", files |-> fs]
    ELSE IF env.download.err \in {"get", "status"}
    THEN [err |-> "download", files |-> fs]
    ELSE IF ~env.executable THEN [err |-> "executable", files |-> fs]
    ELSE IF ~env.open THEN [err |-> "create", files |-> fs]
    \* the temporary file is created and the body copied into it and into
    \* the hasher; on an error of the copy the file is removed
    ELSE IF env.download.err = "copy"
    THEN [err |-> "write", files |-> [fs EXCEPT !.temp = "absent"]]
    ELSE IF Sha256(env.download.body) # fetchChecksums(env.checksums).checksums[assetName]
    THEN [err |-> "mismatch", files |-> [fs EXCEPT !.temp = "absent"]]
    ELSE IF ~env.rename
    THEN [err |-> "replace", files |-> [fs EXCEPT !.temp = "absent"]]
    ELSE [err |-> "none", files |-> [exe |-> env.download.body, temp |-> "absent"]]

\* The answers of the release server: no release, or a release of a version
\* with or without its two assets.
Releases ==
    { [err |-> TRUE, TagName |-> << >>, Assets |-> {}] }
    \cup
    { [err |-> FALSE, TagName |-> t, Assets |-> a] :
        t \in { << "1", "2", "0" >>, << "1", "10", "0" >>, << "1", "2" >> },
        a \in SUBSET {"checksums.txt", assetName} }

\* The answers to the request for checksums.txt: an error, a status other
\* than 200, or a body of lines, each split into its fields.
ChecksumAnswers ==
    { [err |-> e, body |-> << >>] : e \in {"get", "status", "none"} }
    \cup
    { [err |-> "none", body |-> b] :
        b \in { << << "2c26b46b", assetName >> >>,
                << << "2C26B46B", assetName >> >>,
                << << "2c26b46b", "*oxiwatch-linux-amd64" >> >>,
                << << "2c26b46b", "oxiwatch-darwin-arm64" >>, << "2c26b46b" >> >>,
                << << "fcde2b2e", "oxiwatch-darwin-arm64" >>, << "2c26b46b", assetName >> >>,
                << << "2c26b46b", assetName >>, << "fcde2b2e", assetName >> >> } }

\* The answers to the request for the binary: an error, a status other than
\* 200, a body that breaks off, or a body read to its end.
Downloads ==
    { [err |-> e, body |-> "rele"] : e \in {"get", "status", "copy"} }
    \cup { [err |-> "none", body |-> b] : b \in {"release", "tampered"} }

Environments ==
    [currentVersion : { << "dev" >>, << "1", "2", "0" >> },
     release : Releases, checksums : ChecksumAnswers, download : Downloads,
     executable : BOOLEAN, open : BOOLEAN, rename : BOOLEAN]

\* The upgrade command: its one call of Upgrade.
UpgradeCall ==
    /\ upgrade = Nil
    /\ \E env \in Environments :
          /\ upgrade' = [env |-> env, err |-> Upgrade(env, files).err]
          /\ files' = Upgrade(env, files).files
    /\ UNCHANGED << cfg, parseCalls, rows, lastReport, mainPc, runErr, cancelled,
                    sigPending, geoip, storage, teardown >>
    /\ UNCHANGED << PipeVars, SchedVars, EventVars >>

UpgradeInit == InitWith({CHOOSE c \in RestartConfigs : TRUE}, {TRUE})

UpgradeNext == UpgradeCall

UpgradeSpec == UpgradeInit /\ [][UpgradeNext]_vars

(***************************************************************************)
(* C39: Upgrade replaces the executable only by bytes whose SHA-256 is the *)
(* sum listed for this platform's asset; on an error it leaves the         *)
(* executable as it was and no temporary file.                             *)
(***************************************************************************)
\* The sums the body of checksums.txt lists for the name.
Listed(answer, name) ==
    { answer.body[k][1] : k \in { j \in DOMAIN answer.body :
                                    Len(answer.body[j]) >= 2 /\ answer.body[j][2] = name } }

C39_MismatchWitness ==
    /\ upgrade # Nil
    /\ upgrade.err = "mismatch"
    /\ upgrade.env.download.body = "tampered"
    /\ files = [exe |-> "installed", temp |-> "absent"]

====
